---- MODULE Spec2Model ----
(***************************************************************************)
(* Model of the MDSS sweep orchestrator: mdss/src/main_helper.py (execute, *)
(* run_as_subprocess), the worker loop mdss/src/aerostruct.py              *)
(* (Problem.run) and the report merge mdss/utils/helpers.py (deep_update). *)
(***************************************************************************)
EXTENDS Integers, Sequences, FiniteSets, TLC

\* Number of invocations of execute explored in one behaviour.
MaxRuns == 2

(***************************************************************************)
(* Condition values (angles of attack).  A value of the sweep              *)
(* specification is a YAML scalar loaded without coercion                  *)
(* (main.py:48): an int (5) or a float (5.0).  f = TRUE is the float form. *)
(***************************************************************************)
Tok(v, isfloat) == [v |-> v, f |-> isfloat]

\* Python float(aoa)
float(a) == [v |-> a.v, f |-> TRUE]

\* Python str(aoa) / f"{aoa}": "5" for the int 5, "5.0" for the float 5.0
str(a) == IF a.f THEN ToString(a.v) \o ".0" ELSE ToString(a.v)

\* f"aoa_{aoa}": name of the unit's directory and of its checkpoint file
aoa_key(a) == "aoa_" \o str(a)

\* Python ==, in and list.remove compare numbers by value: 5 == 5.0
PyEq(a, b) == a.v = b.v

PyIn(a, list) == \E i \in 1..Len(list) : PyEq(list[i], a)

\* list.remove(a): drops the first element equal to a
RECURSIVE PyRemove(_, _)
PyRemove(list, a) ==
    IF list = <<>> THEN <<>>
    ELSE IF PyEq(Head(list), a) THEN Tail(list)
    ELSE <<Head(list)>> \o PyRemove(Tail(list), a)

AoaValues == {0, 5}
AllToks == {Tok(v, b) : v \in AoaValues, b \in BOOLEAN}

\* float(x) of one field of the comma separated list: the inverse of str
ParseFloat(s) == float(CHOOSE t \in AllToks : str(t) = s)

(***************************************************************************)
(* Sweep specifications (sim_info), as loaded from the input YAML file.    *)
(***************************************************************************)
Scenario(name, aoas) == [name |-> name, aoa_list |-> aoas]
Case(name, meshes, scns) == [name |-> name, mesh_files |-> meshes, scenarios |-> scns]
Hierarchy(name, cases) == [name |-> name, cases |-> cases]

\* one case, two mesh files, one scenario, two float condition values
SimA == [hierarchies |-> <<Hierarchy("h1", <<Case("c1", <<"L0", "L1">>,
            <<Scenario("s1", <<Tok(0, TRUE), Tok(5, TRUE)>>)>>)>>)>>]
\* one mesh file less, the condition value of s1 written as the int 5, and a
\* new scenario whose list holds both 5 and 5.0
SimB == [hierarchies |-> <<Hierarchy("h1", <<Case("c1", <<"L0">>,
            <<Scenario("s1", <<Tok(5, FALSE)>>),
              Scenario("s2", <<Tok(5, FALSE), Tok(5, TRUE)>>)>>)>>)>>]
SimInfos == {SimA, SimB}
\* two hierarchies; the first has two cases, the first of which has two mesh
\* files and two scenarios; one condition value everywhere
SimC == [hierarchies |->
          <<Hierarchy("h1",
              <<Case("c1", <<"L0", "L1">>,
                  <<Scenario("s1", <<Tok(0, TRUE)>>), Scenario("s2", <<Tok(0, TRUE)>>)>>),
                Case("c2", <<"L0">>, <<Scenario("s1", <<Tok(0, TRUE)>>)>>)>>),
            Hierarchy("h2",
              <<Case("c1", <<"L0">>, <<Scenario("s1", <<Tok(0, TRUE)>>)>>)>>)>>]
NoSim == [hierarchies |-> <<>>]

RECURSIVE Concat(_)
Concat(ss) == IF ss = <<>> THEN <<>> ELSE Head(ss) \o Concat(Tail(ss))

\* the refinement levels with the loop over the mesh files outside the loop
\* over the scenarios
levels_mesh_outer(si) ==
    Concat([h \in 1..Len(si.hierarchies) |->
      LET H == si.hierarchies[h] IN
      Concat([c \in 1..Len(H.cases) |->
        LET C == H.cases[c] IN
        Concat([m \in 1..Len(C.mesh_files) |->
          [s \in 1..Len(C.scenarios) |->
             [h |-> h, c |-> c, s |-> s, m |-> m,
              dir |-> <<H.name, C.name, C.scenarios[s].name, C.mesh_files[m]>>,
              aoa_list |-> C.scenarios[s].aoa_list]]])])])

\* The refinement levels in the order the four nested loops visit them.
LevelsOf(si) ==
    Concat([h \in 1..Len(si.hierarchies) |->
      LET H == si.hierarchies[h] IN
      Concat([c \in 1..Len(H.cases) |->
        LET C == H.cases[c] IN
        Concat([s \in 1..Len(C.scenarios) |->
          LET S == C.scenarios[s] IN
          [m \in 1..Len(C.mesh_files) |->
             [h |-> h, c |-> c, s |-> s, m |-> m,
              dir |-> <<H.name, C.name, S.name, C.mesh_files[m]>>,
              aoa_list |-> S.aoa_list]]])])])

(***************************************************************************)
(* Per-unit checkpoint files aoa_<x>/aoa_<x>.yaml.  The disk maps the      *)
(* existing files <<refinement_out_dir, "aoa_<x>">> to their content.      *)
(***************************************************************************)
Absent == [st |-> "absent"]
\* unparsable YAML, or a mapping without fail_flag
Corrupt == [st |-> "corrupt"]
Record(a, ff, out, dir) ==
    [st |-> "rec", AOA |-> a, fail_flag |-> ff, cl |-> out.cl, cd |-> out.cd,
     wall_time |-> "1.00 sec", out_dir |-> <<dir, aoa_key(a)>>]

ReadFile(d, dir, key) == IF <<dir, key>> \in DOMAIN d THEN d[<<dir, key>>] ELSE Absent
WriteFile(d, dir, key, c) == (<<dir, key>> :> c) @@ d
IsSuccess(c) == c.st = "rec" /\ c.fail_flag = 0

\* the coefficients the external solver computes for a condition value on a
\* mesh: a function of the flow problem, the same whenever the solve is repeated
SolveOutput(dir, aoa) == [cl |-> aoa.v + (IF dir[4] = "L0" THEN 1 ELSE 2), cd |-> 1]
\* coefficients left in the problem by a solve that raised
FailedOutput == [cl |-> 0, cd |-> 0]

(***************************************************************************)
(* YAML documents of the cumulative report as tagged trees: mappings,      *)
(* lists and scalars (strings, numbers, condition values, paths).          *)
(***************************************************************************)
D(f) == [t |-> "d", d |-> f]
L(s) == [t |-> "l", l |-> s]
S(x) == [t |-> "s", s |-> x]
N(x) == [t |-> "n", n |-> x]
A(x) == [t |-> "a", a |-> x]
P(x) == [t |-> "p", p |-> x]
NoFile == [t |-> "none"]

isdict(x) == x.t = "d"
islist(x) == x.t = "l"
Max(I) == CHOOSE i \in I : \A j \in I : j <= i

\* a list merge that takes the update list for the result
merge_named_replace(cur, n0, value) == value

\* a list merge that never appends
merge_named_no_append(cur, n0, value) == cur

\* an update that takes the value of the update for every key in both mappings
merge_value_shallow(bv, uv) == uv

RECURSIVE deep_update(_, _)

\* helpers.py 291-297: base_items maps each name to the last base item carrying
\* it (built once, before the loop); a matched item is merged into that base
\* item, an unmatched one is appended.  n0 is the length of the base list.
RECURSIVE merge_named(_, _, _)
merge_named(cur, n0, value) ==
    IF value = <<>> THEN cur
    ELSE LET item == Head(value)
             I == {i \in 1..n0 : cur[i].d["name"] = item.d["name"]}
         IN  IF I # {}
             THEN merge_named([cur EXCEPT ![Max(I)] = deep_update(cur[Max(I)], item)],
                              n0, Tail(value))
             ELSE merge_named(Append(cur, item), n0, Tail(value))

\* a merge that extends a list of plain values by the new items
merge_value_extend(bv, uv) ==
    IF isdict(bv) /\ isdict(uv) THEN deep_update(bv, uv)
    ELSE IF islist(bv) /\ islist(uv)
         THEN IF \A i \in 1..Len(bv.l \o uv.l) : isdict((bv.l \o uv.l)[i])
              THEN L(merge_named(bv.l, Len(bv.l), uv.l))
              ELSE L(bv.l \o uv.l)
         ELSE uv

\* a merge that keeps the old list when the new one is empty
merge_value_keep_nonempty(bv, uv) ==
    IF isdict(bv) /\ isdict(uv) THEN deep_update(bv, uv)
    ELSE IF islist(bv) /\ islist(uv)
         THEN IF uv.l = <<>> THEN bv
              ELSE IF \A i \in 1..Len(bv.l \o uv.l) : isdict((bv.l \o uv.l)[i])
                   THEN L(merge_named(bv.l, Len(bv.l), uv.l))
                   ELSE uv
         ELSE uv

\* helpers.py 283-301: the new value of a key present in both mappings
merge_value(bv, uv) ==
    IF isdict(bv) /\ isdict(uv) THEN deep_update(bv, uv)
    ELSE IF islist(bv) /\ islist(uv)
         THEN IF \A i \in 1..Len(bv.l \o uv.l) : isdict((bv.l \o uv.l)[i])
              THEN L(merge_named(bv.l, Len(bv.l), uv.l))
              ELSE uv
         ELSE uv

\* helpers.py 267-303
deep_update(base_dict, update_dict) ==
    D([key \in DOMAIN base_dict.d \cup DOMAIN update_dict.d |->
        IF key \notin DOMAIN update_dict.d THEN base_dict.d[key]
        ELSE IF key \notin DOMAIN base_dict.d THEN update_dict.d[key]
        ELSE merge_value(base_dict.d[key], update_dict.d[key])])

(***************************************************************************)
(* execute: the skip check, the job descriptor, the reconciliation loop    *)
(* and the report that is written (main_helper.py 26-276).                 *)
(***************************************************************************)
\* main_helper.py 121-141.  A missing or unreadable file, a record without
\* fail_flag and a ValueError of list.remove all end in the bare except.
RECURSIVE skip_loop(_, _, _, _, _)
skip_loop(d, dir, todo, filtered, skipped) ==
    IF todo = <<>>
    THEN [filtered_aoa_list |-> filtered, skipped_aoa_list |-> skipped]
    ELSE LET aoa == Head(todo)
             aoa_sim_info == ReadFile(d, dir, aoa_key(aoa))
         IN  IF IsSuccess(aoa_sim_info) /\ PyIn(aoa, filtered)
             THEN skip_loop(d, dir, Tail(todo), PyRemove(filtered, aoa), Append(skipped, aoa))
             ELSE skip_loop(d, dir, Tail(todo), filtered, skipped)

\* main_helper.py 121-141
skip_check(d, dir, aoa_list) == skip_loop(d, dir, aoa_list, aoa_list, <<>>)

\* main_helper.py 143: the fields of the comma separated string
filtered_aoa_csv_string(list) == [i \in 1..Len(list) |-> str(float(list[i]))]

\* main_helper.py 126-128: the checkpoint file the skip check opens for a
\* declared value (aoa as it is in the loaded YAML)
skip_check_file(dir, aoa) == <<dir, aoa_key(aoa)>>

\* main_helper.py 143, aerostruct.py 223, 308-312: the checkpoint file the
\* worker writes for the value (dispatched as str(float(aoa)), parsed by float)
worker_file(dir, aoa) == <<dir, aoa_key(ParseFloat(str(float(aoa))))>>

\* main_helper.py 171-175: the checkpoint file the reconciliation opens
reconcile_file(dir, aoa) == <<dir, aoa_key(float(aoa))>>

\* main_helper.py 151-159: the job descriptors dispatched for one level
problem_inputs(dir, filtered) ==
    IF Len(filtered) # 0
    THEN <<[ref_level_dir |-> dir, aoa_csv_str |-> filtered_aoa_csv_string(filtered)]>>
    ELSE <<>>

\* main_helper.py 203-204, 209-210
add_failed(failed, aoa) == IF ~PyIn(aoa, failed) THEN Append(failed, aoa) ELSE failed

(***************************************************************************)
(* The level table (<mesh file>_output.csv).  A condition value is held in *)
(* thousandths here (never negative); a cell of the Alpha column holds     *)
(* hundredths, or NaN.                                                     *)
(***************************************************************************)
thousandths(a) == a.v * 1000

\* what is left when t * 2^k is divided by 1000, for the k (mantissa_shift)
\* for which the binary float nearest to t/1000 is m / 2^k with a 53-bit m:
\* 0 when the float holds t/1000 exactly, below 500 when the float is the
\* smaller neighbour of t/1000, above 500 when it is the larger one
float_remainder(t) ==
    LET RECURSIVE mantissa_shift(_, _)
        mantissa_shift(u, k) ==
            IF u < 1000 THEN mantissa_shift(2 * u, k + 1)
            ELSE IF u >= 2000 THEN mantissa_shift(u \div 2, k - 1)
            ELSE k
        RECURSIVE pow2_mod_1000(_)
        pow2_mod_1000(k) == IF k = 0 THEN 1 ELSE (2 * pow2_mod_1000(k - 1)) % 1000
    IN  ((t % 1000) * pow2_mod_1000(mantissa_shift(t, 52))) % 1000

\* main_helper.py 215, 230: f"{alpha:6.2f}", read back by pd.to_numeric: the
\* hundredths nearest to the binary float that holds the value.  A value
\* half way between two hundredths goes the way its float lies, and to the
\* even hundredth when the float is exact
alpha_2f(t) ==
    IF t % 10 # 5 THEN (t + 5) \div 10
    ELSE IF float_remainder(t) > 500 THEN (t \div 10) + 1
    ELSE IF float_remainder(t) > 0 THEN t \div 10
    ELSE (t \div 10) + ((t \div 10) % 2)

\* pd.to_numeric(errors='coerce') of a cell whose text is no number
NaN == 0 - 1

\* main_helper.py 214-220: the row written for a successful record
row_of(t, cl, cd) == [Alpha |-> alpha_2f(t), CL |-> cl, CD |-> cd]

\* main_helper.py 187-191: the values of the row taken from the record
table_row(c) == row_of(thousandths(c.AOA), c.cl, c.cd)

\* helpers.py 168-173: the rows whose Alpha, CL and CD are numbers
numeric_rows(rows) ==
    SelectSeq(rows, LAMBDA r : r.Alpha # NaN /\ r.CL # NaN /\ r.CD # NaN)

\* main_helper.py 230-231: the rows whose Alpha is a number
dropna_Alpha(rows) == SelectSeq(rows, LAMBDA r : r.Alpha # NaN)

\* a table that keeps the first row of every condition value
keep_first(rows) ==
    LET I == {i \in 1..Len(rows) : \A j \in 1..(i - 1) : rows[j].Alpha # rows[i].Alpha}
        pick[k \in 0..Len(rows)] ==
            IF k = 0 THEN <<>>
            ELSE IF k \in I THEN Append(pick[k - 1], rows[k]) ELSE pick[k - 1]
    IN  pick[Len(rows)]

\* main_helper.py 232: drop_duplicates(subset='Alpha', keep='last')
drop_duplicates(rows) ==
    LET I == {i \in 1..Len(rows) :
                \A j \in (i + 1)..Len(rows) : rows[j].Alpha # rows[i].Alpha}
        pick[k \in 0..Len(rows)] ==
            IF k = 0 THEN <<>>
            ELSE IF k \in I THEN Append(pick[k - 1], rows[k]) ELSE pick[k - 1]
    IN  pick[Len(rows)]

\* main_helper.py 233: sort_values(by='Alpha') on rows with distinct Alpha
RECURSIVE sort_values(_)
sort_values(rows) ==
    IF rows = <<>> THEN <<>>
    ELSE LET m == CHOOSE i \in 1..Len(rows) : \A j \in 1..Len(rows) :
                        rows[i].Alpha <= rows[j].Alpha
         IN  <<rows[m]>> \o sort_values(SubSeq(rows, 1, m - 1)
                                         \o SubSeq(rows, m + 1, Len(rows)))

\* a table file with the given rows
Table(rows) == [st |-> "table", rows |-> rows]

\* helpers.py 150-187: load_csv_data gives no rows for an unreadable file
load_csv_data(file) == IF file.st = "table" THEN numeric_rows(file.rows) ELSE <<>>

\* main_helper.py 222-234: the table written for a level; existing is the
\* file found (Absent if there is none, Corrupt if it cannot be read)
level_table(existing, new_rows) ==
    LET df_existing == IF existing = Absent THEN <<>> ELSE load_csv_data(existing)
    IN  Table(sort_values(drop_duplicates(dropna_Alpha(df_existing \o new_rows))))

\* main_helper.py 194-200
aoa_level_dict(c, dir, key) ==
    D(("cl" :> N(c.cl)) @@ ("cd" :> N(c.cd)) @@ ("wall_time" :> S(c.wall_time))
      @@ ("fail_flag" :> N(c.fail_flag)) @@ ("out_dir" :> P(<<dir, key>>)))

\* main_helper.py 171-211: acc = [rld, failed, rows, disk]
RECURSIVE recon_loop(_, _, _)
recon_loop(dir, todo, acc) ==
    IF todo = <<>> THEN acc
    ELSE LET aoa == float(Head(todo))
             key == aoa_key(aoa)
             aoa_sim_info == ReadFile(acc.disk, dir, key)
         IN  IF aoa_sim_info.st = "rec"
             THEN IF aoa_sim_info.fail_flag = 0
                  THEN recon_loop(dir, Tail(todo),
                         [rld |-> (key :> aoa_level_dict(aoa_sim_info, dir, key)) @@ acc.rld,
                          failed |-> acc.failed,
                          rows |-> Append(acc.rows, table_row(aoa_sim_info)),
                          disk |-> WriteFile(acc.disk, dir, key, aoa_sim_info)])
                  ELSE recon_loop(dir, Tail(todo),
                         [rld |-> acc.rld,
                          failed |-> add_failed(acc.failed, aoa),
                          rows |-> acc.rows,
                          disk |-> WriteFile(acc.disk, dir, key, aoa_sim_info)])
             ELSE recon_loop(dir, Tail(todo),
                         [acc EXCEPT !.failed = add_failed(acc.failed, aoa)])

\* main_helper.py 171-241: the level entry of the report and the rewritten files
reconcile(d, dir, aoa_list) ==
    LET r == recon_loop(dir, aoa_list,
                        [rld |-> <<>>, failed |-> <<>>, rows |-> <<>>, disk |-> d])
    IN  [refinement_level_dict |->
             D(r.rld @@ ("failed_aoa" :> L([i \in 1..Len(r.failed) |-> A(r.failed[i])]))
               @@ ("csv_file" :> P(<<dir, "output.csv">>))
               @@ ("refinement_out_dir" :> P(dir))),
         rows |-> r.rows,
         disk |-> r.disk]

\* main_helper.py 96-97, 241: sim_info of one scenario
scenario_sim_info(ld, hn, cn, sn, meshes) ==
    D([k \in {"scenario_out_dir"} \cup {meshes[m] : m \in 1..Len(meshes)} |->
        IF k = "scenario_out_dir" THEN P(<<hn, cn, sn>>) ELSE ld[<<hn, cn, sn, k>>]])

\* main_helper.py 63, 247, 263: the sweep specification with the level results
sim_out_info(si, ld, stamp) ==
    D(("hierarchies" :> L([h \in 1..Len(si.hierarchies) |->
        LET H == si.hierarchies[h] IN
        D(("name" :> S(H.name)) @@
          ("cases" :> L([c \in 1..Len(H.cases) |->
            LET C == H.cases[c] IN
            D(("name" :> S(C.name)) @@
              ("mesh_files" :> L([m \in 1..Len(C.mesh_files) |-> S(C.mesh_files[m])])) @@
              ("scenarios" :> L([s \in 1..Len(C.scenarios) |->
                LET Sc == C.scenarios[s] IN
                D(("name" :> S(Sc.name)) @@
                  ("aoa_list" :> L([i \in 1..Len(Sc.aoa_list) |-> A(Sc.aoa_list[i])])) @@
                  ("sim_info" :> scenario_sim_info(ld, H.name, C.name, Sc.name,
                                                   C.mesh_files)))])))])))]))
      @@ ("overall_sim_info" :> D("start_time" :> N(stamp))))

\* a final out file that is overwritten with the report of this invocation
final_sim_out_info_overwrite(prev, new) == new

\* main_helper.py 265-270: what is written to the final out file
final_sim_out_info(prev, new) ==
    IF prev # NoFile THEN deep_update(prev, new) ELSE new

(***************************************************************************)
(* State.                                                                  *)
(***************************************************************************)
VARIABLES
    pc,               \* position of execute: idle, level, running, reconcile,
                      \* finish, done (returned), raised (left by an exception)
    sim,              \* simulation.sim_info of the current invocation
    subprocess_flag,  \* simulation.subprocess_flag: "True" from the constructor
                      \* (main.py 53), "False" set by a calling script, "0" set by
                      \* run_custom_sim.run (utils.py 525)
    pos,              \* index of the current refinement level in LevelsOf(sim)
    level_dicts,      \* refinement_level_dict of the levels reconciled so far
    worker,           \* the dispatched batch: Problem.run in the worker
    disk,             \* the per-unit checkpoint files
    reportFile,       \* simulation.final_out_file (overall_sim_info.yaml)
    nruns,            \* invocations of execute started
    dispatched,       \* job descriptors handed to run_as_subprocess or Problem
                      \* by the current invocation
    levelLog,         \* levels processed by the current invocation, with the
                      \* checkpoint files as they were at the skip check
    startReport,      \* reportFile when the current invocation started
    rerun,            \* the invocation repeats the previous, returned one on
                      \* an output directory nobody else touched
    tampered,         \* 0, or the number of invocations started when an outside
                      \* process changed a checkpoint file
    tables,           \* the level tables (<mesh file>_output.csv)
    MODULES_NOT_FOUND, \* main_helper.py 15-19: the solver modules cannot be imported
    write_mdss_files, \* simulation.write_mdss_files: "unset" as the constructor
                      \* leaves it (main.py 41-57), or what the calling script set
    call,             \* a helper function called on its own, with its arguments
    ret               \* what that call returned

vars == <<pc, sim, subprocess_flag, pos, level_dicts, worker, disk, reportFile,
          nruns, dispatched, levelLog, startReport, rerun, tampered, tables, MODULES_NOT_FOUND, write_mdss_files,
          call, ret>>

\* main_helper.py 50, 158, 160: "is True" and "is False" hold for the bool
\* objects only (not for 0); "not x" is the truth value of x
is_True(x) == x = "True"
is_False(x) == x = "False"
truth(x) == x = "True"

NoCall == [fn |-> "none"]
NoRet == [t |-> "none"]

NoWorker == [st |-> "none", dir |-> <<>>, todo |-> <<>>, problem_results |-> <<>>]

Levels == LevelsOf(sim)
Level == Levels[pos]

Init ==
    /\ pc = "idle"
    /\ sim = NoSim
    /\ subprocess_flag \in {"True", "False", "0"}
    /\ pos = 0
    /\ level_dicts = <<>>
    /\ worker = NoWorker
    /\ disk = <<>>
    /\ reportFile = NoFile
    /\ nruns = 0
    /\ dispatched = <<>>
    /\ levelLog = <<>>
    /\ startReport = NoFile
    /\ rerun = FALSE
    /\ tampered = 0
    /\ tables = <<>>
    /\ MODULES_NOT_FOUND = FALSE
    /\ write_mdss_files \in {"unset", "True", "False"}
    /\ call = NoCall
    /\ ret = NoRet

Stopped == pc \in {"idle", "done", "raised"}

\* the mesh files present in the meshes folder
MeshFilesPresent == {"L0", "L1"}

\* yaml_config.py 79-87, 21-23: the fields of a case and of its scenarios
\* pass the field validation
case_fields(C) ==
    /\ {"name", "mesh_files", "scenarios"} \subseteq DOMAIN C
    /\ \A y \in 1..Len(C.scenarios) :
          {"name", "aoa_list"} \subseteq DOMAIN C.scenarios[y]

\* yaml_config.py 21-23, 79-87, 118-123: the required fields the model carries
required_fields(si) ==
    /\ "hierarchies" \in DOMAIN si
    /\ \A h \in 1..Len(si.hierarchies) :
          LET H == si.hierarchies[h] IN
          /\ {"name", "cases"} \subseteq DOMAIN H
          /\ \A c \in 1..Len(H.cases) : case_fields(H.cases[c])

\* yaml_config.py 105-113: the check that runs after the field validation of
\* a case that passed it: every mesh file of the case exists
additonal_check(si) ==
    \/ "hierarchies" \notin DOMAIN si
    \/ \A h \in 1..Len(si.hierarchies) :
          LET H == si.hierarchies[h] IN
          \/ "cases" \notin DOMAIN H
          \/ \A c \in 1..Len(H.cases) :
                LET C == H.cases[c] IN
                case_fields(C) =>
                    \A m \in 1..Len(C.mesh_files) :
                        C.mesh_files[m] \in MeshFilesPresent

\* yaml_config.py 172-196: ref_sim_info.model_validate(sim_info) returns
check_input_yaml(si) == required_fields(si) /\ additonal_check(si)

\* an entry of execute that checks nothing
start_unchecked(si, no_modules, flag) == "ok"

\* main.py 41-44 and main_helper.py 50-54: what the construction of the
\* simulation and the entry of execute raise.  The FileNotFoundError of a
\* missing mesh file leaves the validation at once (yaml_config.py 112-113);
\* the missing fields are collected and raised when the validation ends.
start_outcome(si, no_modules, flag) ==
    IF ~additonal_check(si) THEN "FileNotFoundError"
    ELSE IF ~required_fields(si) THEN "ValidationError"
    ELSE IF no_modules /\ is_False(flag) THEN "ModuleNotFoundError"
    ELSE "ok"

\* main.py 41-57, main_helper.py 50-68: the simulation is constructed from
\* the sweep specification and execute is entered
Start(si) ==
    /\ Stopped
    /\ nruns < MaxRuns
    /\ sim' = si
    /\ IF start_outcome(si, MODULES_NOT_FOUND, subprocess_flag) = "ok"
       THEN pos' = 1 /\ pc' = "level"
       ELSE pos' = 0 /\ pc' = "raised"
    /\ level_dicts' = <<>>
    /\ worker' = NoWorker
    /\ nruns' = nruns + 1
    /\ dispatched' = <<>>
    /\ levelLog' = <<>>
    /\ startReport' = reportFile
    /\ rerun' = (pc = "done" /\ si = sim /\ tampered # nruns)
    /\ UNCHANGED <<subprocess_flag, disk, reportFile, tampered>>
    /\ UNCHANGED <<tables, MODULES_NOT_FOUND, write_mdss_files, call, ret>>

\* the checkpoint files of a level as the skip check finds them
Snapshot(d, lv) ==
    [a \in {lv.aoa_list[i] : i \in 1..Len(lv.aoa_list)}
           \cup {float(lv.aoa_list[i]) : i \in 1..Len(lv.aoa_list)} |->
        ReadFile(d, lv.dir, aoa_key(a))]

\* aerostruct.py 223: the batch of the worker
batch_of(job) == [i \in 1..Len(job.aoa_csv_str) |-> ParseFloat(job.aoa_csv_str[i])]

\* a level step that trusts the skip check only while a cumulative report
\* exists, and dispatches every declared value otherwise
ExecuteLevelByReport ==
    /\ pc = "level"
    /\ LET chk == skip_check(disk, Level.dir, Level.aoa_list)
           jobs == problem_inputs(Level.dir,
                      IF reportFile = NoFile THEN Level.aoa_list
                      ELSE chk.filtered_aoa_list)
       IN  /\ levelLog' = Append(levelLog,
                 [dir |-> Level.dir, aoa_list |-> Level.aoa_list,
                  snap |-> Snapshot(disk, Level)])
           /\ dispatched' = dispatched \o jobs
           /\ IF jobs # <<>>
              THEN /\ pc' = "running"
                   /\ worker' = [st |-> "running", dir |-> jobs[1].ref_level_dir,
                                 todo |-> batch_of(jobs[1]), problem_results |-> <<>>]
              ELSE /\ pc' = "reconcile"
                   /\ worker' = NoWorker
    /\ UNCHANGED <<sim, subprocess_flag, pos, level_dicts, disk, reportFile, nruns,
                   startReport, rerun, tampered>>
    /\ UNCHANGED <<tables, MODULES_NOT_FOUND, write_mdss_files, call, ret>>

\* main_helper.py 99-165: skip check; a non-empty filtered list is dispatched:
\* to run_as_subprocess if subprocess_flag is True, to Problem if it is False.
\* For any other value (0) neither branch is taken and new_aoa_results is
\* unbound at line 164: nothing is dispatched and execute is left.
ExecuteLevel ==
    /\ pc = "level"
    /\ LET chk == skip_check(disk, Level.dir, Level.aoa_list)
           jobs == problem_inputs(Level.dir, chk.filtered_aoa_list)
       IN  /\ levelLog' = Append(levelLog,
                 [dir |-> Level.dir, aoa_list |-> Level.aoa_list,
                  snap |-> Snapshot(disk, Level)])
           /\ IF jobs = <<>>
              THEN /\ pc' = "reconcile"
                   /\ worker' = NoWorker
                   /\ dispatched' = dispatched
              ELSE IF is_True(subprocess_flag) \/ is_False(subprocess_flag)
              THEN /\ pc' = "running"
                   /\ worker' = [st |-> "running", dir |-> jobs[1].ref_level_dir,
                                 todo |-> batch_of(jobs[1]), problem_results |-> <<>>]
                   /\ dispatched' = dispatched \o jobs
              ELSE /\ pc' = "raised"
                   /\ worker' = NoWorker
                   /\ dispatched' = dispatched
    /\ UNCHANGED <<sim, subprocess_flag, pos, level_dicts, disk, reportFile, nruns,
                   startReport, rerun, tampered>>
    /\ UNCHANGED <<tables, MODULES_NOT_FOUND, write_mdss_files, call, ret>>

\* main_helper.py 408: Popen cannot start the launcher (mpirun or srun is not
\* installed); the exception leaves run_as_subprocess and execute
DispatchError ==
    /\ pc = "level"
    /\ is_True(subprocess_flag)
    /\ skip_check(disk, Level.dir, Level.aoa_list).filtered_aoa_list # <<>>
    /\ pc' = "raised"
    /\ levelLog' = Append(levelLog,
          [dir |-> Level.dir, aoa_list |-> Level.aoa_list, snap |-> Snapshot(disk, Level)])
    /\ dispatched' = dispatched \o
          problem_inputs(Level.dir, skip_check(disk, Level.dir, Level.aoa_list).filtered_aoa_list)
    /\ UNCHANGED <<sim, subprocess_flag, pos, level_dicts, worker, disk, reportFile,
                   nruns, startReport, rerun, tampered>>
    /\ UNCHANGED <<tables, MODULES_NOT_FOUND, write_mdss_files, call, ret>>

\* a pass of the loop that solves the value again whatever record it has
problem_run_step_again(w, d, ok) ==
    LET aoa == Head(w.todo)
        key == aoa_key(aoa)
        out == SolveOutput(w.dir, aoa)
    IN  [w |-> [w EXCEPT !.todo = Tail(w.todo),
                         !.problem_results =
                             IF ok THEN (key :> out) @@ w.problem_results
                             ELSE w.problem_results],
         disk |-> WriteFile(d, w.dir, key,
                    Record(aoa, IF ok THEN 0 ELSE 1,
                           IF ok THEN out ELSE FailedOutput, w.dir))]

\* aerostruct.py 307-389: one pass of the loop of Problem.run.  ok tells
\* whether run_model returns (TRUE) or raises for this condition value.
problem_run_step(w, d, ok) ==
    LET aoa == Head(w.todo)
        key == aoa_key(aoa)
        out == SolveOutput(w.dir, aoa)
        aoa_sim_info == ReadFile(d, w.dir, key)
    IN  IF aoa_sim_info.st = "corrupt"
        THEN [w |-> [w EXCEPT !.st = "raised"], disk |-> d]
        ELSE IF IsSuccess(aoa_sim_info)
        THEN [w |-> [w EXCEPT !.todo = Tail(w.todo)], disk |-> d]
        ELSE [w |-> [w EXCEPT !.todo = Tail(w.todo),
                              !.problem_results =
                                  IF ok THEN (key :> out) @@ w.problem_results
                                  ELSE w.problem_results],
              disk |-> WriteFile(d, w.dir, key,
                         Record(aoa, IF ok THEN 0 ELSE 1,
                                IF ok THEN out ELSE FailedOutput, w.dir))]

ProblemRunStep ==
    /\ pc = "running"
    /\ worker.st = "running"
    /\ worker.todo # <<>>
    /\ \E ok \in BOOLEAN :
          LET r == problem_run_step(worker, disk, ok)
          IN  /\ worker' = r.w
              /\ disk' = r.disk
    /\ UNCHANGED <<pc, sim, subprocess_flag, pos, level_dicts, reportFile, nruns, dispatched, levelLog, startReport, rerun, tampered>>
    /\ UNCHANGED <<tables, MODULES_NOT_FOUND, write_mdss_files, call, ret>>

\* aerostruct.py 391: Problem.run returns problem_results to execute
\* (main_helper.py 161-162, no subprocess)
ProblemRunReturn ==
    /\ pc = "running"
    /\ is_False(subprocess_flag)
    /\ worker.st = "running"
    /\ worker.todo = <<>>
    /\ worker' = [worker EXCEPT !.st = "returned"]
    /\ UNCHANGED <<pc, sim, subprocess_flag, pos, level_dicts, disk, reportFile, nruns,
                   dispatched, levelLog, startReport, rerun, tampered>>
    /\ UNCHANGED <<tables, MODULES_NOT_FOUND, write_mdss_files, call, ret>>

\* The worker script run_as_subprocess starts with --problemInfo: it runs
\* Problem.run and prints problem_results between two ::RESULT:: markers on one
\* line.  (The script kept in resources/templates.py takes other arguments and
\* prints no marker; see WorkerDies.)
WorkerPrintsResult ==
    /\ pc = "running"
    /\ is_True(subprocess_flag)
    /\ worker.st = "running"
    /\ worker.todo = <<>>
    /\ worker' = [worker EXCEPT !.st = "returned"]
    /\ UNCHANGED <<pc, sim, subprocess_flag, pos, level_dicts, disk, reportFile, nruns,
                   dispatched, levelLog, startReport, rerun, tampered>>
    /\ UNCHANGED <<tables, MODULES_NOT_FOUND, write_mdss_files, call, ret>>

\* main_helper.py 416-420: the worker's output ends without a marker line (the
\* script of resources/templates.py 4-20, a worker that is killed, a crash of
\* the solver or of the set up of the problem)
WorkerDies ==
    /\ pc = "running"
    /\ is_True(subprocess_flag)
    /\ worker.st = "running"
    /\ worker' = [worker EXCEPT !.st = "raised"]
    /\ UNCHANGED <<pc, sim, subprocess_flag, pos, level_dicts, disk, reportFile, nruns,
                   dispatched, levelLog, startReport, rerun, tampered>>
    /\ UNCHANGED <<tables, MODULES_NOT_FOUND, write_mdss_files, call, ret>>

\* main_helper.py 416-432 (subprocess) and 161-164 (in process): the dispatch
\* returns the new results, or raises.  Without a marker line
\* subprocess_result_json is unbound at line 431.
dispatch_outcome(w) == IF w.st = "returned" THEN "reconcile" ELSE "raised"

DispatchReturn ==
    /\ pc = "running"
    /\ worker.st \in {"returned", "raised"}
    /\ pc' = dispatch_outcome(worker)
    /\ UNCHANGED <<sim, subprocess_flag, pos, level_dicts, worker, disk, reportFile,
                   nruns, dispatched, levelLog, startReport, rerun, tampered>>
    /\ UNCHANGED <<tables, MODULES_NOT_FOUND, write_mdss_files, call, ret>>

\* main_helper.py 222: the table of a level as found on disk
TableAt(t, dir) == IF dir \in DOMAIN t THEN t[dir] ELSE Absent

\* main_helper.py 168-241: simulation.write_mdss_files is read (an attribute the
\* constructor does not set: AttributeError); if it is false the rest of the
\* level is skipped, otherwise the level is reconciled; then the next level
Reconcile ==
    /\ pc = "reconcile"
    /\ worker' = NoWorker
    /\ IF write_mdss_files = "unset"
       THEN /\ pc' = "raised"
            /\ UNCHANGED <<pos, level_dicts, disk, tables>>
       ELSE /\ IF truth(write_mdss_files)
               THEN LET r == reconcile(disk, Level.dir, Level.aoa_list)
                    IN  /\ level_dicts' =
                              (Level.dir :> r.refinement_level_dict) @@ level_dicts
                        /\ disk' = r.disk
                        /\ tables' =
                              (Level.dir :> level_table(TableAt(tables, Level.dir), r.rows))
                              @@ tables
               ELSE UNCHANGED <<level_dicts, disk, tables>>
            /\ IF pos < Len(Levels)
               THEN pos' = pos + 1 /\ pc' = "level"
               ELSE pos' = pos /\ pc' = "finish"
    /\ UNCHANGED <<sim, subprocess_flag, reportFile, nruns, dispatched, levelLog,
                   startReport, rerun, tampered>>
    /\ UNCHANGED <<MODULES_NOT_FOUND, write_mdss_files, call, ret>>

\* main_helper.py 64, 256: start_wall_time is read from the clock (to the second)
\* when execute is entered and is used only in the report; the model draws it
\* where it is used.  It is the start time of the previous report or a later one.
Stamps(prev) ==
    IF prev = NoFile THEN {0}
    ELSE {prev.d["overall_sim_info"].d["start_time"].n,
          prev.d["overall_sim_info"].d["start_time"].n + 1}

\* main_helper.py 252-276: simulation.write_mdss_files is read (AttributeError
\* if it was never set); if it is true the report is merged into the previous
\* one and written; execute returns
Finish ==
    /\ pc = "finish"
    /\ IF write_mdss_files = "unset"
       THEN /\ pc' = "raised"
            /\ UNCHANGED <<reportFile, level_dicts>>
       ELSE /\ pc' = "done"
            /\ level_dicts' = <<>>
            /\ IF truth(write_mdss_files)
               THEN \E stamp \in Stamps(reportFile) :
                       reportFile' = final_sim_out_info(reportFile,
                                         sim_out_info(sim, level_dicts, stamp))
               ELSE reportFile' = reportFile
    /\ UNCHANGED <<sim, subprocess_flag, pos, worker, disk, nruns, dispatched,
                   levelLog, startReport, rerun, tampered>>
    /\ UNCHANGED <<tables, MODULES_NOT_FOUND, write_mdss_files, call, ret>>

\* Another process damages one checkpoint file (once in a behaviour): between
\* two invocations, or after a level's dispatch has returned and before the
\* level is reconciled.
Tamper ==
    /\ (Stopped /\ nruns < MaxRuns) \/ pc = "reconcile"
    /\ tampered = 0
    /\ \E f \in DOMAIN disk : disk' = [disk EXCEPT ![f] = Corrupt]
    /\ tampered' = nruns
    /\ rerun' = FALSE
    /\ UNCHANGED <<pc, sim, subprocess_flag, pos, level_dicts, worker, reportFile, nruns,
                   dispatched, levelLog, startReport>>
    /\ UNCHANGED <<tables, MODULES_NOT_FOUND, write_mdss_files, call, ret>>

Next ==
    \/ \E si \in SimInfos : Start(si)
    \/ ExecuteLevel
    \/ DispatchError
    \/ ProblemRunStep
    \/ ProblemRunReturn
    \/ WorkerPrintsResult
    \/ WorkerDies
    \/ DispatchReturn
    \/ Reconcile
    \/ Finish
    \/ Tamper

Spec == Init /\ [][Next]_vars

(***************************************************************************)
(* One invocation of execute over a sweep specification with several       *)
(* hierarchies, cases, scenarios and mesh files (main_helper.py 70-241).   *)
(***************************************************************************)
StartWalk ==
    /\ nruns = 0
    /\ Start(SimC)

WalkNext ==
    \/ StartWalk
    \/ ExecuteLevel
    \/ DispatchError
    \/ ProblemRunStep
    \/ ProblemRunReturn
    \/ WorkerPrintsResult
    \/ WorkerDies
    \/ DispatchReturn
    \/ Reconcile
    \/ Finish
    \/ Tamper

SpecWalk == Init /\ [][WalkNext]_vars

(***************************************************************************)
(* Invocations that differ in the cumulative report and the level tables.  *)
(* Between two invocations the report file (main_helper.py 262) and the    *)
(* <mesh file>_output.csv tables (main_helper.py 215) may be removed, so   *)
(* that the same checkpoint files are met with and without them.           *)
(***************************************************************************)
LoseReport ==
    /\ Stopped
    /\ nruns < MaxRuns
    /\ \E r \in {reportFile, NoFile}, t \in {tables, <<>>} :
          /\ <<r, t>> # <<reportFile, tables>>
          /\ reportFile' = r
          /\ tables' = t
    /\ UNCHANGED <<pc, sim, subprocess_flag, pos, level_dicts, worker, disk, nruns,
                   dispatched, levelLog, startReport, rerun, tampered>>
    /\ UNCHANGED <<MODULES_NOT_FOUND, write_mdss_files, call, ret>>

TwinNext ==
    \/ \E si \in SimInfos : Start(si)
    \/ ExecuteLevel
    \/ DispatchError
    \/ ProblemRunStep
    \/ ProblemRunReturn
    \/ WorkerPrintsResult
    \/ WorkerDies
    \/ DispatchReturn
    \/ Reconcile
    \/ Finish
    \/ LoseReport

SpecTwin == Init /\ [][TwinNext]_vars

(***************************************************************************)
(* Invocations with sweep specifications that may fail validation, in an   *)
(* environment where the solver modules may be missing (main.py 41-57,     *)
(* main_helper.py 15-19, 50-54).                                           *)
(***************************************************************************)
\* SimA with a second mesh file that does not exist
SimBadMesh == [hierarchies |-> <<Hierarchy("h1", <<Case("c1", <<"L0", "L9">>,
                  <<Scenario("s1", <<Tok(0, TRUE), Tok(5, TRUE)>>)>>)>>)>>]
\* a hierarchy without its cases
SimNoCases == [hierarchies |-> <<[name |-> "h1"]>>]
ConfigSimInfos == {SimA, SimBadMesh, SimNoCases}

ConfigInit ==
    /\ pc = "idle"
    /\ sim = NoSim
    /\ subprocess_flag \in {"True", "False", "0"}
    /\ pos = 0
    /\ level_dicts = <<>>
    /\ worker = NoWorker
    /\ disk = <<>>
    /\ reportFile = NoFile
    /\ nruns = 0
    /\ dispatched = <<>>
    /\ levelLog = <<>>
    /\ startReport = NoFile
    /\ rerun = FALSE
    /\ tampered = 0
    /\ tables = <<>>
    /\ MODULES_NOT_FOUND \in BOOLEAN
    /\ write_mdss_files \in {"unset", "True", "False"}
    /\ call = NoCall
    /\ ret = NoRet

ConfigNext ==
    \/ \E si \in ConfigSimInfos : Start(si)
    \/ ExecuteLevel
    \/ DispatchError
    \/ ProblemRunStep
    \/ ProblemRunReturn
    \/ WorkerPrintsResult
    \/ WorkerDies
    \/ DispatchReturn
    \/ Reconcile
    \/ Finish

SpecConfig == ConfigInit /\ [][ConfigNext]_vars

(***************************************************************************)
(* deep_update on its own: a mapping whose "cases" key holds a list of     *)
(* named records is updated with another such mapping.  The base records   *)
(* are named a or b and the update records b or c, so that a name can be   *)
(* in the base list only, in both, or in the update list only; a list may  *)
(* carry a name more than once.                                            *)
(***************************************************************************)
\* Longest list of named records handed to deep_update.
MaxLen == 2

NamedRecord(name, variant) ==
    IF variant = "x1" THEN D(("name" :> S(name)) @@ ("x" :> N(1)))
    ELSE IF variant = "x2k1"
         THEN D(("name" :> S(name)) @@ ("x" :> N(2)) @@ ("info" :> D("k1" :> N(1))))
         ELSE D(("name" :> S(name)) @@ ("info" :> D(("k1" :> N(3)) @@ ("k2" :> N(2)))))
BaseRecords == {NamedRecord(n, v) : n \in {"a", "b"}, v \in {"x1", "x2k1"}}
UpdateRecords == {NamedRecord(n, v) : n \in {"b", "c"}, v \in {"x2k1", "k1k2"}}
ListsOf(R) == UNION {[1..n -> R] : n \in 0..MaxLen}
CasesDict(list) == D(("name" :> S("h1")) @@ ("cases" :> L(list)))

MergeInit ==
    /\ pc = "idle"
    /\ sim = NoSim
    /\ subprocess_flag = "False"
    /\ pos = 0
    /\ level_dicts = <<>>
    /\ worker = NoWorker
    /\ disk = <<>>
    /\ reportFile = NoFile
    /\ nruns = 0
    /\ dispatched = <<>>
    /\ levelLog = <<>>
    /\ startReport = NoFile
    /\ rerun = FALSE
    /\ tampered = 0
    /\ tables = <<>>
    /\ MODULES_NOT_FOUND = FALSE
    /\ write_mdss_files = "unset"
    /\ \E b \in ListsOf(BaseRecords), u \in ListsOf(UpdateRecords) :
          call = [fn |-> "deep_update", base_dict |-> CasesDict(b),
                  update_dict |-> CasesDict(u)]
    /\ ret = NoRet

\* helpers.py 267-303: the call returns with base_dict updated in place
DeepUpdateCall ==
    /\ call.fn = "deep_update"
    /\ ret = NoRet
    /\ ret' = deep_update(call.base_dict, call.update_dict)
    /\ UNCHANGED <<pc, sim, subprocess_flag, pos, level_dicts, worker, disk, reportFile,
                   nruns, dispatched, levelLog, startReport, rerun, tampered, tables, MODULES_NOT_FOUND, write_mdss_files, call>>

MergeNext == DeepUpdateCall

SpecMerge == MergeInit /\ [][MergeNext]_vars

(***************************************************************************)
(* deep_update on two mappings of scalars and mappings, three levels deep. *)
(***************************************************************************)
InnerMappings ==
    {D(<<>>),
     D("a" :> N(1)),
     D(("a" :> N(2)) @@ ("b" :> N(1))),
     D("b" :> D("z" :> N(1))),
     D("b" :> D(("z" :> N(2)) @@ ("y" :> N(1))))}
MappingValues == {N(1), N(2)} \cup InnerMappings
Mappings == {D(f) : f \in UNION {[K -> MappingValues] : K \in SUBSET {"p", "q"}}}

\* the variables of execute, at rest while a helper is called on its own
SweepIdle ==
    /\ pc = "idle"
    /\ sim = NoSim
    /\ subprocess_flag = "False"
    /\ pos = 0
    /\ level_dicts = <<>>
    /\ worker = NoWorker
    /\ disk = <<>>
    /\ reportFile = NoFile
    /\ nruns = 0
    /\ dispatched = <<>>
    /\ levelLog = <<>>
    /\ startReport = NoFile
    /\ rerun = FALSE
    /\ tampered = 0
    /\ tables = <<>>
    /\ MODULES_NOT_FOUND = FALSE
    /\ write_mdss_files = "unset"

MapMergeInit ==
    /\ SweepIdle
    /\ \E b \in Mappings, u \in Mappings :
          call = [fn |-> "deep_update", base_dict |-> b, update_dict |-> u]
    /\ ret = NoRet

SpecMapMerge == MapMergeInit /\ [][MergeNext]_vars

(***************************************************************************)
(* Three report fragments merged one after the other, as execute does over *)
(* three invocations (main_helper.py 265-268), and merged in the other     *)
(* grouping.  A fragment is a list of hierarchies with a list of cases     *)
(* each; the names are unique within a list.                               *)
(***************************************************************************)
CaseLists == {<<>>, <<"c1">>, <<"c2">>, <<"c1", "c2">>}
HierarchyRecord(name, cases) ==
    D(("name" :> S(name)) @@
      ("cases" :> L([i \in 1..Len(cases) |-> D("name" :> S(cases[i]))])))
HierarchyLists ==
    {<<>>}
    \cup {<<HierarchyRecord(n, c)>> : n \in {"h1", "h2"}, c \in CaseLists}
    \cup {<<HierarchyRecord(n[1], c1), HierarchyRecord(n[2], c2)>> :
            n \in {<<"h1", "h2">>, <<"h2", "h1">>}, c1 \in CaseLists, c2 \in CaseLists}
Fragments == {D("hierarchies" :> L(h)) : h \in HierarchyLists}

FoldInit ==
    /\ SweepIdle
    /\ \E a \in Fragments, b \in Fragments, c \in Fragments :
          call = [fn |-> "fold", A |-> a, B |-> b, C |-> c]
    /\ ret = NoRet

\* main_helper.py 265-268 over three invocations: the fragments are merged into
\* the report one after the other; and A merged with B, then C; and A merged
\* with the merge of B and C
FoldCall ==
    /\ call.fn = "fold"
    /\ ret = NoRet
    /\ ret' = [folded |-> deep_update(deep_update(final_sim_out_info(NoFile, call.A),
                                                  call.B), call.C),
               left   |-> deep_update(deep_update(call.A, call.B), call.C),
               right  |-> deep_update(call.A, deep_update(call.B, call.C))]
    /\ UNCHANGED <<pc, sim, subprocess_flag, pos, level_dicts, worker, disk, reportFile,
                   nruns, dispatched, levelLog, startReport, rerun, tampered, tables, MODULES_NOT_FOUND, write_mdss_files, call>>

FoldNext == FoldCall

SpecFold == FoldInit /\ [][FoldNext]_vars

(***************************************************************************)
(* run_as_subprocess reading the worker's stdout (main_helper.py 416-432). *)
(* A line is a sequence of pieces of text: "M" is the text ::RESULT::,     *)
(* "x" any other text, " " white space, and the pieces of a JSON text are  *)
(* "{", "}", ":", ",", the string literals of KeyTokens and the number     *)
(* literals of NumTokens.                                                  *)
(***************************************************************************)
\* Most lines in the stdout of one worker.
MaxLines == 3

KeyTokens == {"aoa_0.0", "aoa_5.0", "cl", "cd"}
NumTokens == {"1", "2"}
NumValue(tok) == IF tok = "1" THEN 1 ELSE 2

\* leading white space removed, and white space at both ends removed
RECURSIVE lstrip(_)
lstrip(t) == IF t # <<>> /\ Head(t) = " " THEN lstrip(Tail(t)) ELSE t
RECURSIVE rstrip(_)
rstrip(t) ==
    IF t # <<>> /\ t[Len(t)] = " " THEN rstrip(SubSeq(t, 1, Len(t) - 1)) ELSE t
strip(t) == rstrip(lstrip(t))

\* str.split(sep) and str.splitlines(): the parts of a text between the
\* characters of seps, the empty ones included; cur is the part being read
RECURSIVE parts_from(_, _, _)
parts_from(text, seps, cur) ==
    IF text = <<>> THEN <<cur>>
    ELSE IF Head(text) \in seps
         THEN <<cur>> \o parts_from(Tail(text), seps, <<>>)
         ELSE parts_from(Tail(text), seps, Append(cur, Head(text)))

\* texts are sequences of characters; a text made of parts with a separator
\* between them
RECURSIVE join(_, _)
join(sep, parts) ==
    IF parts = <<>> THEN <<>>
    ELSE IF Len(parts) = 1 THEN parts[1]
    ELSE parts[1] \o sep \o join(sep, Tail(parts))

\* None: what a call returns that ends without a return statement, and the
\* value of an empty YAML document or node
None == [t |-> "None"]

\* json.loads on a JSON text of numbers and objects: [ok, val, rest] of the
\* value read at the start of t; a key given twice keeps its last value
ParseFail == [ok |-> FALSE, val |-> NoFile, rest |-> <<>>]
RECURSIVE parse_value(_)
RECURSIVE parse_members(_, _)
parse_members(t0, acc) ==
    LET t == lstrip(t0)
    IN  IF t = <<>> \/ Head(t) \notin KeyTokens THEN ParseFail
        ELSE LET t1 == lstrip(Tail(t))
             IN  IF t1 = <<>> \/ Head(t1) # ":" THEN ParseFail
                 ELSE LET v == parse_value(Tail(t1))
                          acc1 == (Head(t) :> v.val) @@ acc
                          t2 == lstrip(v.rest)
                      IN  IF ~v.ok \/ t2 = <<>> THEN ParseFail
                          ELSE IF Head(t2) = "}"
                               THEN [ok |-> TRUE, val |-> D(acc1), rest |-> Tail(t2)]
                          ELSE IF Head(t2) = ","
                               THEN parse_members(Tail(t2), acc1)
                          ELSE ParseFail
parse_value(t0) ==
    LET t == lstrip(t0)
    IN  IF t = <<>> THEN ParseFail
        ELSE IF Head(t) \in NumTokens
             THEN [ok |-> TRUE, val |-> N(NumValue(Head(t))), rest |-> Tail(t)]
        ELSE IF Head(t) = "{"
             THEN LET t1 == lstrip(Tail(t))
                  IN  IF t1 # <<>> /\ Head(t1) = "}"
                      THEN [ok |-> TRUE, val |-> D(<<>>), rest |-> Tail(t1)]
                      ELSE parse_members(t1, <<>>)
        ELSE ParseFail
json_loads(t) ==
    LET v == parse_value(t)
    IN  IF v.ok /\ lstrip(v.rest) = <<>>
        THEN [st |-> "returned", value |-> v.val]
        ELSE [st |-> "raised", value |-> NoFile]

\* a test that finds the marker anywhere in the line
contains_marker(line) == \E i \in 1..Len(line) : line[i] = "M"

\* main_helper.py 418: line.startswith("::RESULT::")
startswith_marker(line) == line # <<>> /\ Head(line) = "M"

\* main_helper.py 419-420: re.search(r"::RESULT::(.*?)::RESULT::", line): the
\* text between the first marker that has a marker after it and the next
\* marker, stripped; no match gives None, and None.group raises
marker_search(line) ==
    LET I == {i \in 1..Len(line) :
                line[i] = "M" /\ \E j \in (i + 1)..Len(line) : line[j] = "M"}
    IN  IF I = {} THEN [matched |-> FALSE, group |-> <<>>]
        ELSE LET i == CHOOSE x \in I : \A y \in I : x <= y
                 j == CHOOSE x \in (i + 1)..Len(line) :
                        line[x] = "M" /\ \A y \in (i + 1)..(x - 1) : line[y] # "M"
             IN  [matched |-> TRUE, group |-> strip(SubSeq(line, i + 1, j - 1))]

\* main_helper.py 416-423: the loop over the lines of stdout; cur is
\* subprocess_result_json, unbound until a marker line is read
Unbound == [bound |-> FALSE, text |-> <<>>]
RECURSIVE read_stdout(_, _)
read_stdout(lines, cur) ==
    IF lines = <<>> THEN [st |-> "read", cur |-> cur]
    ELSE IF startswith_marker(Head(lines))
         THEN IF marker_search(Head(lines)).matched
              THEN read_stdout(Tail(lines),
                               [bound |-> TRUE, text |-> marker_search(Head(lines)).group])
              ELSE [st |-> "raised", cur |-> cur]
         ELSE read_stdout(Tail(lines), cur)

\* main_helper.py 416-432: what run_as_subprocess returns for a stdout
subprocess_result(stdout) ==
    LET r == read_stdout(stdout, Unbound)
    IN  IF r.st = "raised" \/ ~r.cur.bound
        THEN [st |-> "raised", value |-> NoFile]
        ELSE json_loads(r.cur.text)

\* What the worker prints for its results: json.dumps with the default
\* separators, the keys in the order of insertion.
KeyOrder == <<"aoa_0.0", "aoa_5.0", "cl", "cd">>
RECURSIVE json_dumps(_)
RECURSIVE dumps_members(_, _, _)
dumps_members(m, i, first) ==
    IF i > Len(KeyOrder) THEN <<>>
    ELSE IF KeyOrder[i] \notin DOMAIN m.d THEN dumps_members(m, i + 1, first)
    ELSE (IF first THEN <<>> ELSE <<",", " ">>)
         \o <<KeyOrder[i], ":", " ">> \o json_dumps(m.d[KeyOrder[i]])
         \o dumps_members(m, i + 1, FALSE)
json_dumps(v) ==
    IF isdict(v) THEN <<"{">> \o dumps_members(v, 1, TRUE) \o <<"}">>
    ELSE <<ToString(v.n)>>
MarkerLine(m) == <<"M">> \o json_dumps(m) \o <<"M">>

\* aerostruct.py 351-355: problem_results of a batch
CoeffDicts == {D(("cl" :> N(c)) @@ ("cd" :> N(1))) : c \in {1, 2}}
ResultMappings ==
    {D(f) : f \in UNION {[K -> CoeffDicts] : K \in SUBSET {"aoa_0.0", "aoa_5.0"}}}

\* the lines a worker's stdout is made of: marker lines, a line that starts
\* with the marker and has no second one, and lines that do not start with it
OtherLines ==
    {<<>>, <<"x">>, <<"{", "}">>, <<"x", "M", "{", "}", "M">>, <<" ", "M", "{", "}", "M">>}
StdoutLines == {MarkerLine(m) : m \in ResultMappings} \cup {<<"M", "{">>} \cup OtherLines
Stdouts == UNION {[1..n -> StdoutLines] : n \in 0..MaxLines}

ParseInit ==
    /\ SweepIdle
    /\ \E out \in Stdouts : call = [fn |-> "run_as_subprocess", stdout |-> out]
    /\ ret = NoRet

\* main_helper.py 416-432
ReadResultCall ==
    /\ call.fn = "run_as_subprocess"
    /\ ret = NoRet
    /\ ret' = subprocess_result(call.stdout)
    /\ UNCHANGED <<pc, sim, subprocess_flag, pos, level_dicts, worker, disk, reportFile,
                   nruns, dispatched, levelLog, startReport, rerun, tampered, tables, MODULES_NOT_FOUND, write_mdss_files, call>>

ParseNext == ReadResultCall

SpecParse == ParseInit /\ [][ParseNext]_vars

(***************************************************************************)
(* The level table write called on its own: any table found on disk and    *)
(* any list of newly produced rows (main_helper.py 213-234).               *)
(***************************************************************************)
MaxRows == 2

\* the Alpha cells of a table found on disk
AlphaCells == {400, 500, NaN}

\* the rows a table found on disk can hold
FoundRows == [Alpha : AlphaCells, CL : {1, 2}, CD : {1}]

\* the table files found on disk
FoundTables ==
    {Absent, Corrupt}
    \cup {Table(r) : r \in UNION {[1..n -> FoundRows] : n \in 0..MaxRows}}

\* the successful results of a level: condition value (thousandths), cl, cd;
\* 4.005 is written as 4.00 and 4.025 as 4.03
NewResults == [t : {4000, 4005, 4025, 5000}, cl : {3, 4}, cd : {1}]

TableInit ==
    /\ SweepIdle
    /\ \E f \in FoundTables :
       \E n \in UNION {[1..k -> NewResults] : k \in 0..MaxRows} :
           call = [fn |-> "level_table", existing |-> f, new |-> n]
    /\ ret = NoRet

\* main_helper.py 213-234
TableWriteCall ==
    /\ call.fn = "level_table"
    /\ ret = NoRet
    /\ ret' = level_table(call.existing,
                          [i \in 1..Len(call.new) |->
                              row_of(call.new[i].t, call.new[i].cl, call.new[i].cd)])
    /\ UNCHANGED <<pc, sim, subprocess_flag, pos, level_dicts, worker, disk,
                   reportFile, nruns, dispatched, levelLog, startReport, rerun,
                   tampered, tables, MODULES_NOT_FOUND, write_mdss_files, call>>

TableNext == TableWriteCall

SpecTable == TableInit /\ [][TableNext]_vars

(***************************************************************************)
(* The write of one checkpoint file, step by step, with a reader of the    *)
(* same file (aerostruct.py 388-389, main_helper.py 206-207).  The text of *)
(* a file is a sequence of characters.                                     *)
(***************************************************************************)
\* the characters of the names and texts the records of this section hold
chars(s) ==
    CASE s = "h1" -> <<"h", "1">>
      [] s = "c1" -> <<"c", "1">>
      [] s = "s1" -> <<"s", "1">>
      [] s = "L0" -> <<"L", "0">>
      [] s = "aoa_5.0" -> <<"a", "o", "a", "_", "5", ".", "0">>
      [] s = "1.00 sec" -> <<"1", ".", "0", "0", " ", "s", "e", "c">>

\* the implicit type of a plain YAML scalar (yaml.safe_load): null, bool,
\* int (octal with a leading 0), float (digits with a point), or str.  The
\* values are the strings S, the ints N, None, floats F (in thousandths) and
\* booleans B.
resolve(c) ==
    LET F(x) == [t |-> "f", f |-> x]
        B(x) == [t |-> "b", b |-> x]
        Digits == <<"0", "1", "2", "3", "4", "5", "6", "7", "8", "9">>
        digit(ch) == CHOOSE d \in 0..9 : Digits[d + 1] = ch
        isdigits(t) == t # <<>> /\ \A i \in 1..Len(t) : \E d \in 0..9 : Digits[d + 1] = t[i]
        number[k \in 0..Len(c)] ==
            [base \in {8, 10} |-> IF k = 0 THEN 0 ELSE number[k - 1][base] * base + digit(c[k])]
        points == {i \in 1..Len(c) : c[i] = "."}
        point == CHOOSE i \in points : TRUE
        whole == SubSeq(c, 1, point - 1)
        frac == SubSeq(c, point + 1, Len(c))
        value[k \in 0..Len(c)] ==
            IF k = 0 THEN 0
            ELSE IF k = point THEN value[k - 1] * 1000
            ELSE IF k < point THEN value[k - 1] * 10 + digit(c[k])
            ELSE IF k = point + 1 THEN value[k - 1] + 100 * digit(c[k])
            ELSE IF k = point + 2 THEN value[k - 1] + 10 * digit(c[k])
            ELSE IF k = point + 3 THEN value[k - 1] + digit(c[k])
            ELSE value[k - 1]
    IN  IF c = <<>> \/ c \in {<<"~">>, <<"n", "u", "l", "l">>, <<"N", "u", "l", "l">>, <<"N", "U", "L", "L">>} THEN None
        ELSE IF c \in {<<"y", "e", "s">>, <<"Y", "e", "s">>, <<"Y", "E", "S">>,
                       <<"t", "r", "u", "e">>, <<"T", "r", "u", "e">>, <<"T", "R", "U", "E">>,
                       <<"o", "n">>, <<"O", "n">>, <<"O", "N">>}
             THEN B(TRUE)
        ELSE IF c \in {<<"n", "o">>, <<"N", "o">>, <<"N", "O">>,
                       <<"f", "a", "l", "s", "e">>, <<"F", "a", "l", "s", "e">>, <<"F", "A", "L", "S", "E">>,
                       <<"o", "f", "f">>, <<"O", "f", "f">>, <<"O", "F", "F">>}
             THEN B(FALSE)
        ELSE IF isdigits(c)
             THEN IF Len(c) = 1 \/ c[1] # "0" THEN N(number[Len(c)][10])
                  ELSE IF \A i \in 1..Len(c) : digit(c[i]) < 8 THEN N(number[Len(c)][8])
                  ELSE S(c)
        ELSE IF Cardinality(points) = 1
                /\ (whole = <<>> \/ isdigits(whole)) /\ (frac = <<>> \/ isdigits(frac))
                /\ (whole # <<>> \/ frac # <<>>)
             THEN F(value[Len(c)])
        ELSE S(c)

\* yaml.safe_load of a text made of the lines yaml.dump writes for a record
\* (a block mapping of scalars and of one level of nested block mappings), or
\* of the first characters of such a text.  A last line without a colon is
\* the whole document when it is the first line, the value of the line
\* before when that line opens a nested mapping ("key:" with less indent),
\* and a key without its colon otherwise, which is a ScannerError.  A last
\* line "key:" without a value gives the key the value None, in the top
\* mapping and in a nested one.
yaml_safe_load(text) ==
    LET newlines == {i \in 1..Len(text) : text[i] = "\n"}
        end(s) == CHOOSE i \in newlines \cup {Len(text) + 1} :
                     i >= s /\ \A j \in newlines : j >= s => i <= j
        \* where the lines begin that hold more than spaces
        starts == {s \in {1} \cup {i + 1 : i \in newlines} :
                     \E i \in s..(end(s) - 1) : text[i] # " "}
        n == Cardinality(starts)
        ls == [i \in 1..n |->
                 LET s == CHOOSE x \in starts : Cardinality({y \in starts : y < x}) = i - 1
                 IN  SubSeq(text, s, end(s) - 1)]
        indent(i) == Len(ls[i]) - Len(lstrip(ls[i]))
        body(i) == strip(ls[i])
        colons(i) == {k \in 1..Len(body(i)) :
                        body(i)[k] = ":" /\ (k = Len(body(i)) \/ body(i)[k + 1] = " ")}
        colon(i) == CHOOSE k \in colons(i) : \A j \in colons(i) : k <= j
        key(i) == SubSeq(body(i), 1, colon(i) - 1)
        val(i) == strip(SubSeq(body(i), colon(i) + 1, Len(body(i))))
        kind(i) == IF colons(i) = {} THEN "scalar"
                   ELSE IF val(i) = <<>> THEN "open" ELSE "pair"
        \* the lines of the nested mapping that the line i opens
        kids(i) == {j \in (i + 1)..n : \A k \in (i + 1)..j : indent(k) > indent(i)}
        nested(i) ==
            IF kids(i) = {} THEN None
            ELSE IF kind(i + 1) = "scalar" THEN resolve(body(i + 1))
            ELSE D([k \in {key(j) : j \in kids(i)} |->
                      LET j == Max({x \in kids(i) : key(x) = k})
                      IN  IF kind(j) = "pair" THEN resolve(val(j)) ELSE None])
        top == {i \in 1..n : indent(i) = 0}
        wrong(i) ==
            \/ /\ kind(i) = "scalar"
               /\ n > 1
               /\ ~(i = n /\ kind(i - 1) = "open" /\ indent(i - 1) < indent(i))
            \/ /\ indent(i) > 0
               /\ \/ i = 1
                  \/ indent(i - 1) > indent(i)
                  \/ indent(i - 1) < indent(i) /\ kind(i - 1) # "open"
    IN  IF n = 0 THEN [st |-> "returned", value |-> None]
        ELSE IF \E i \in 1..n : wrong(i) THEN [st |-> "raised", value |-> "YAMLError"]
        ELSE IF n = 1 /\ kind(1) = "scalar"
             THEN [st |-> "returned", value |-> resolve(body(1))]
        ELSE [st |-> "returned",
              value |-> D([k \in {key(i) : i \in top} |->
                             LET i == Max({x \in top : key(x) = k})
                             IN  IF kind(i) = "pair" THEN resolve(val(i)) ELSE nested(i)])]

\* yaml.dump(record, sort_keys=False): the text of a record, in the order of
\* its keys (aerostruct.py 367-379), with the fields the model carries: the
\* scenario with its name and exp_data, and of the aero options the grid file
\* and the option before it (resources/aero_defaults.py 11-13)
yaml_dump(rec) ==
    LET Digits == <<"0", "1", "2", "3", "4", "5", "6", "7", "8", "9">>
        RECURSIVE int_repr(_)
        int_repr(k) == IF k < 10 THEN <<Digits[k + 1]>>
                       ELSE int_repr(k \div 10) \o <<Digits[(k % 10) + 1]>>
        float_repr(k) == int_repr(k) \o <<".", "0">>
        line(k, v) == k \o <<":", " ">> \o v \o <<"\n">>
        dir == rec.out_dir[1]
        path == <<"/">> \o join(<<"/">>, [i \in 1..Len(dir) |-> chars(dir[i])])
                   \o <<"/">> \o chars(rec.out_dir[2])
    IN  line(<<"A", "O", "A">>, float_repr(rec.AOA.v))
        \o line(<<"o", "u", "t", "_", "d", "i", "r">>, path)
        \o line(<<"f", "a", "i", "l", "_", "f", "l", "a", "g">>, int_repr(rec.fail_flag))
        \o <<"s", "c", "e", "n", "a", "r", "i", "o", "_", "i", "n", "f", "o", ":", "\n">>
        \o line(<<" ", " ", "n", "a", "m", "e">>, chars(dir[3]))
        \o line(<<" ", " ", "e", "x", "p", "_", "d", "a", "t", "a">>, <<"N", "o", "t", " ", "p", "r", "o", "v", "i", "d", "e", "d">>)
        \o line(<<"c", "l">>, float_repr(rec.cl))
        \o line(<<"c", "d">>, float_repr(rec.cd))
        \o line(<<"w", "a", "l", "l", "_", "t", "i", "m", "e">>, chars(rec.wall_time))
        \o <<"a", "e", "r", "o", "_", "o", "p", "t", "i", "o", "n", "s", ":", "\n">>
        \o line(<<" ", " ", "p", "r", "i", "n", "t", "T", "i", "m", "i", "n", "g">>, <<"f", "a", "l", "s", "e">>)
        \o line(<<" ", " ", "g", "r", "i", "d", "F", "i", "l", "e">>, chars(dir[4]))

\* a file that holds the given text
Text(text) == [st |-> "text", text |-> text]

\* open(aoa_info_file, 'r') and yaml.safe_load (main_helper.py 131-132)
read_file(file) ==
    IF file = Absent THEN [st |-> "raised", value |-> "FileNotFoundError"]
    ELSE yaml_safe_load(file.text)

\* the records written for the condition value 5.0 of one level
WrittenRecords ==
    LET dir == <<"h1", "c1", "s1", "L0">>
        aoa == Tok(5, TRUE)
    IN  {Record(aoa, 0, SolveOutput(dir, aoa), dir), Record(aoa, 1, FailedOutput, dir)}

WriteInit ==
    /\ SweepIdle
    /\ \E old \in {Absent} \cup {Text(yaml_dump(r)) : r \in WrittenRecords} :
       \E new \in WrittenRecords :
       \E by \in {"Problem.run", "execute"} :
           \* execute rewrites a record it has read (main_helper.py 180-207)
           /\ by = "execute" => old = Text(yaml_dump(new))
           /\ call = [fn |-> "write", by |-> by, st |-> "start", previous |-> old,
                      file |-> old, record |-> new, buffered |-> <<>>]
    /\ ret = NoRet

\* aerostruct.py 388, main_helper.py 206: open(aoa_info_file, 'w') creates the
\* file or truncates it
OpenForWrite ==
    /\ call.fn = "write"
    /\ call.st = "start"
    /\ call' = [call EXCEPT !.st = "open", !.file = Text(<<>>),
                            !.buffered = yaml_dump(call.record)]
    /\ UNCHANGED ret
    /\ UNCHANGED <<pc, sim, subprocess_flag, pos, level_dicts, worker, disk, reportFile,
                   nruns, dispatched, levelLog, startReport, rerun, tampered, tables,
                   MODULES_NOT_FOUND, write_mdss_files>>

\* aerostruct.py 389, main_helper.py 207: yaml.dump writes to the stream; the
\* buffer of the stream is flushed to the file when it is full, which may be
\* after any character of the text (the record holds further fields of any
\* length, such as the exp_data of the scenario)
FlushSome ==
    /\ call.fn = "write"
    /\ call.st = "open"
    /\ \E k \in 1..Len(call.buffered) :
          call' = [call EXCEPT
                     !.file = Text(call.file.text \o SubSeq(call.buffered, 1, k)),
                     !.buffered = SubSeq(call.buffered, k + 1, Len(call.buffered))]
    /\ UNCHANGED ret
    /\ UNCHANGED <<pc, sim, subprocess_flag, pos, level_dicts, worker, disk, reportFile,
                   nruns, dispatched, levelLog, startReport, rerun, tampered, tables,
                   MODULES_NOT_FOUND, write_mdss_files>>

\* the end of the with block: the rest is flushed and the file is closed
CloseFile ==
    /\ call.fn = "write"
    /\ call.st = "open"
    /\ call' = [call EXCEPT !.st = "closed",
                            !.file = Text(call.file.text \o call.buffered),
                            !.buffered = <<>>]
    /\ UNCHANGED ret
    /\ UNCHANGED <<pc, sim, subprocess_flag, pos, level_dicts, worker, disk, reportFile,
                   nruns, dispatched, levelLog, startReport, rerun, tampered, tables,
                   MODULES_NOT_FOUND, write_mdss_files>>

\* another process reads the file (main_helper.py 131-132, 181-182;
\* aerostruct.py 320-322)
ReaderReads ==
    /\ call.fn = "write"
    /\ ret = NoRet
    /\ ret' = read_file(call.file)
    /\ UNCHANGED call
    /\ UNCHANGED <<pc, sim, subprocess_flag, pos, level_dicts, worker, disk, reportFile,
                   nruns, dispatched, levelLog, startReport, rerun, tampered, tables,
                   MODULES_NOT_FOUND, write_mdss_files>>

WriteNext ==
    \/ OpenForWrite
    \/ FlushSome
    \/ CloseFile
    \/ ReaderReads

SpecWrite == WriteInit /\ [][WriteNext]_vars

(***************************************************************************)
(* submit_job_on_hpc on rank 0 (main_helper.py 280-355), with the queue of *)
(* the cluster.  call holds the arguments, the local variables of the      *)
(* function and the queue; ret is what the function returns.               *)
(***************************************************************************)
MaxPolls == 3

\* time.sleep(10), main_helper.py 345
PollInterval == 10

\* a text of lines of words, every line ended by a newline
text_of(ls) ==
    Concat([k \in 1..Len(ls) |-> join(<<" ">>, ls[k]) \o <<"\n">>])

\* what subprocess.run(["sbatch", job_script_path]) gives: the job is accepted
\* (the acknowledgement alone, or after another line and followed by an empty
\* one), the submission fails and prints nothing on stdout, the submission
\* fails after text was printed on stdout
SbatchResults ==
    LET Submitted == <<"S", "u", "b", "m", "i", "t", "t", "e", "d">>
        batch == <<"b", "a", "t", "c", "h">>
        job == <<"j", "o", "b">>
        Requesting == <<"R", "e", "q", "u", "e", "s", "t", "i", "n", "g">>
        Submitting == <<"S", "u", "b", "m", "i", "t", "t", "i", "n", "g">>
        to == <<"t", "o">>
        standard == <<"s", "t", "a", "n", "d", "a", "r", "d">>
    IN  {[returncode |-> 0,
          stdout |-> text_of(<<<<Submitted, batch, job, <<"1", "2", "3">>>>>>)],
         [returncode |-> 0,
          stdout |-> text_of(<<<<Requesting, standard>>,
                               <<Submitted, batch, job, <<"4", "5", "6">>>>, <<>>>>)],
         [returncode |-> 1, stdout |-> <<>>],
         [returncode |-> 1, stdout |-> text_of(<<<<Submitting, to, standard>>>>)]}

\* str.strip().split(): the words of a text, whatever the lines
split(stdout) == SelectSeq(parts_from(stdout, {" ", "\n"}, <<>>), LAMBDA w : w # <<>>)

\* the first word of the last line that has one
first_word_of_last_line(stdout) ==
    LET ls == parts_from(stdout, {"\n"}, <<>>)
    IN  Head(split(ls[Max({k \in 1..Len(ls) : split(ls[k]) # <<>>})]))

\* main_helper.py 335: subprocess_out.stdout.strip().split()[-1]
last_word(stdout) == split(stdout)[Len(split(stdout))]

\* the stdout of squeue --job <job_id>: the header, and the row of the job
\* when it is in the queue
squeue_stdout(job_id, queue) ==
    LET JOBID == <<"J", "O", "B", "I", "D">>
    IN  IF job_id \in queue THEN text_of(<<<<JOBID>>, <<job_id>>>>)
        ELSE text_of(<<<<JOBID>>>>)

\* main_helper.py 342: job_id in result.stdout, the text of job_id is found
\* somewhere in the text of stdout
listed(job_id, stdout) ==
    \E i \in 1..(Len(stdout) + 1) :
        /\ i + Len(job_id) - 1 <= Len(stdout)
        /\ SubSeq(stdout, i, i + Len(job_id) - 1) = job_id

\* the name of the file Slurm writes the output of the job to, and the name
\* the function opens (main_helper.py 304: "%j" is not replaced)
slurm_out_file(job_name, job_id) == <<job_name, job_id>>
out_file(job_name) == <<job_name, <<"%", "j">>>>

\* main_helper.py 352: simulation_results.update(x) on the empty mapping:
\* the mapping x, and TypeError for an x that is not a mapping
dict_update(x) ==
    IF isdict(x) THEN [st |-> "returned", value |-> x]
    ELSE [st |-> "raised", value |-> NoFile]

\* main_helper.py 347-353: the first line of the file that starts with the
\* marker is parsed, simulation_results is updated with what it holds and
\* the loop ends; simulation_results is empty otherwise
RECURSIVE read_out_file(_)
read_out_file(lines) ==
    IF lines = <<>> THEN [st |-> "returned", value |-> D(<<>>)]
    ELSE IF startswith_marker(Head(lines))
         THEN IF marker_search(Head(lines)).matched
              THEN LET loaded == json_loads(marker_search(Head(lines)).group)
                   IN  IF loaded.st = "returned" THEN dict_update(loaded.value)
                       ELSE loaded
              ELSE [st |-> "raised", value |-> NoFile]
         ELSE read_out_file(Tail(lines))

\* templates.py 23-33: what run_sim.py prints (execute's messages; no line
\* with the marker)
JobOutput == <<<<"x">>, <<>>>>

HpcInit ==
    /\ SweepIdle
    /\ \E w \in BOOLEAN, cl \in {"GL", "other"}, sb \in SbatchResults,
          name \in {"run", "sweep"} :
          call = [fn |-> "submit_job_on_hpc", wait_for_job |-> w, cluster |-> cl,
                  job_name |-> name, sbatch |-> sb, st |-> "start", job_id |-> <<>>,
                  submitted |-> FALSE, polls |-> 0, slept |-> 0, queue |-> {},
                  files |-> <<>>, error |-> ""]
    /\ ret = NoRet

\* main_helper.py 307-336, 355: the job script and run_sim.py are written and
\* sbatch is run; without wait_for_job the function returns.  For a cluster
\* other than GL the block that holds every statement, the return included,
\* is skipped: nothing is written or submitted and the call returns None
Submit ==
    /\ call.fn = "submit_job_on_hpc"
    /\ call.st = "start"
    /\ IF call.cluster # "GL"
       THEN /\ call' = [call EXCEPT !.st = "returned"]
            /\ ret' = None
       ELSE IF split(call.sbatch.stdout) = <<>>
       THEN /\ call' = [call EXCEPT !.st = "raised", !.error = "IndexError"]
            /\ UNCHANGED ret
       ELSE LET job_id == last_word(call.sbatch.stdout)
                q == IF call.sbatch.returncode = 0 THEN {job_id} ELSE {}
            IN  IF call.wait_for_job
                THEN /\ call' = [call EXCEPT !.st = "polling", !.job_id = job_id,
                                             !.submitted = TRUE, !.queue = q]
                     /\ UNCHANGED ret
                ELSE /\ call' = [call EXCEPT !.st = "returned", !.job_id = job_id,
                                             !.submitted = TRUE, !.queue = q]
                     /\ ret' = [job_id |-> job_id, simulation_results |-> D(<<>>)]
    /\ UNCHANGED <<pc, sim, subprocess_flag, pos, level_dicts, worker, disk, reportFile,
                   nruns, dispatched, levelLog, startReport, rerun, tampered, tables,
                   MODULES_NOT_FOUND, write_mdss_files>>

\* main_helper.py 339-344: one poll of the queue
Poll ==
    /\ call.fn = "submit_job_on_hpc"
    /\ call.st = "polling"
    /\ IF listed(call.job_id, squeue_stdout(call.job_id, call.queue))
       THEN call' = [call EXCEPT !.st = "sleeping",
                                 !.polls = IF @ < MaxPolls THEN @ + 1 ELSE @]
       ELSE call' = [call EXCEPT !.st = "reading"]
    /\ UNCHANGED ret
    /\ UNCHANGED <<pc, sim, subprocess_flag, pos, level_dicts, worker, disk, reportFile,
                   nruns, dispatched, levelLog, startReport, rerun, tampered, tables,
                   MODULES_NOT_FOUND, write_mdss_files>>

\* main_helper.py 345: time.sleep(10), then the next poll
Sleep ==
    /\ call.fn = "submit_job_on_hpc"
    /\ call.st = "sleeping"
    /\ call' = [call EXCEPT !.st = "polling",
                            !.slept = IF @ < MaxPolls * PollInterval
                                      THEN @ + PollInterval ELSE @]
    /\ UNCHANGED ret
    /\ UNCHANGED <<pc, sim, subprocess_flag, pos, level_dicts, worker, disk, reportFile,
                   nruns, dispatched, levelLog, startReport, rerun, tampered, tables,
                   MODULES_NOT_FOUND, write_mdss_files>>

\* main_helper.py 347-355: the output file is opened under the name that
\* still holds "%j"; the file Slurm wrote has the job id in its name
ReadOutFile ==
    /\ call.fn = "submit_job_on_hpc"
    /\ call.st = "reading"
    /\ IF out_file(call.job_name) \notin DOMAIN call.files
       THEN /\ call' = [call EXCEPT !.st = "raised", !.error = "FileNotFoundError"]
            /\ UNCHANGED ret
       ELSE LET r == read_out_file(call.files[out_file(call.job_name)])
            IN  IF r.st = "raised"
                THEN /\ call' = [call EXCEPT !.st = "raised", !.error = "parse"]
                     /\ UNCHANGED ret
                ELSE /\ call' = [call EXCEPT !.st = "returned"]
                     /\ ret' = [job_id |-> call.job_id, simulation_results |-> r.value]
    /\ UNCHANGED <<pc, sim, subprocess_flag, pos, level_dicts, worker, disk, reportFile,
                   nruns, dispatched, levelLog, startReport, rerun, tampered, tables,
                   MODULES_NOT_FOUND, write_mdss_files>>

\* the cluster: the job ends and leaves the queue; its output is in the file
\* named by the job script (templates.py 38-55, #SBATCH --output)
JobLeavesQueue ==
    /\ call.fn = "submit_job_on_hpc"
    /\ \E id \in call.queue :
          call' = [call EXCEPT !.queue = @ \ {id},
                               !.files = (slurm_out_file(call.job_name, id) :> JobOutput) @@ @]
    /\ UNCHANGED ret
    /\ UNCHANGED <<pc, sim, subprocess_flag, pos, level_dicts, worker, disk, reportFile,
                   nruns, dispatched, levelLog, startReport, rerun, tampered, tables,
                   MODULES_NOT_FOUND, write_mdss_files>>

HpcNext ==
    \/ Submit
    \/ Poll
    \/ Sleep
    \/ ReadOutFile
    \/ JobLeavesQueue

\* the function runs on: a poll or a sleep that can be taken is taken; the
\* job may stay in the queue for ever
SpecHpc ==
    /\ HpcInit
    /\ [][HpcNext]_vars
    /\ WF_vars(Poll)
    /\ WF_vars(Sleep)

(***************************************************************************)
(* run_as_subprocess and its worker process (main_helper.py 407-426).  The *)
(* worker is started with stdout and stderr as pipes; a pipe holds a       *)
(* bounded number of bytes (counted here in lines) and a write to a full   *)
(* pipe blocks until the other end reads.  The parent reads stdout line by *)
(* line to the end of file, then waits for the worker, then reads stderr.  *)
(***************************************************************************)
PipeCapacity == 2
MaxWrites == 4

\* what the worker writes, in order: lines to stdout ("out") and to stderr ("err")
RECURSIVE WritePlans(_)
WritePlans(n) ==
    IF n = 0 THEN {<<>>}
    ELSE WritePlans(n - 1) \cup
         {Append(q, x) : q \in {r \in WritePlans(n - 1) : Len(r) = n - 1},
                         x \in {"out", "err"}}

PipeInit ==
    /\ SweepIdle
    /\ \E plan \in WritePlans(MaxWrites) :
          call = [fn |-> "run_as_subprocess", parent |-> "reading", child |-> "running",
                  todo |-> plan, stdout |-> 0, stderr |-> 0, lines_read |-> 0,
                  stderr_read |-> 0]
    /\ ret = NoRet

\* the worker writes its next line; the write needs room in the pipe
ChildWrite ==
    /\ call.fn = "run_as_subprocess"
    /\ call.child = "running"
    /\ call.todo # <<>>
    /\ IF Head(call.todo) = "out"
       THEN /\ call.stdout < PipeCapacity
            /\ call' = [call EXCEPT !.stdout = @ + 1, !.todo = Tail(@)]
       ELSE /\ call.stderr < PipeCapacity
            /\ call' = [call EXCEPT !.stderr = @ + 1, !.todo = Tail(@)]
    /\ UNCHANGED ret
    /\ UNCHANGED <<pc, sim, subprocess_flag, pos, level_dicts, worker, disk, reportFile,
                   nruns, dispatched, levelLog, startReport, rerun, tampered, tables,
                   MODULES_NOT_FOUND, write_mdss_files>>

\* the worker has written everything and exits: its ends of the pipes close
ChildExit ==
    /\ call.fn = "run_as_subprocess"
    /\ call.child = "running"
    /\ call.todo = <<>>
    /\ call' = [call EXCEPT !.child = "exited"]
    /\ UNCHANGED ret
    /\ UNCHANGED <<pc, sim, subprocess_flag, pos, level_dicts, worker, disk, reportFile,
                   nruns, dispatched, levelLog, startReport, rerun, tampered, tables,
                   MODULES_NOT_FOUND, write_mdss_files>>

\* main_helper.py 416-423: one pass of "for line in p.stdout"
ParentReadLine ==
    /\ call.fn = "run_as_subprocess"
    /\ call.parent = "reading"
    /\ call.stdout > 0
    /\ call' = [call EXCEPT !.stdout = @ - 1, !.lines_read = @ + 1]
    /\ UNCHANGED ret
    /\ UNCHANGED <<pc, sim, subprocess_flag, pos, level_dicts, worker, disk, reportFile,
                   nruns, dispatched, levelLog, startReport, rerun, tampered, tables,
                   MODULES_NOT_FOUND, write_mdss_files>>

\* main_helper.py 416: the loop ends at the end of file of stdout, that is when
\* the pipe is empty and the worker has closed its end
ParentEndOfFile ==
    /\ call.fn = "run_as_subprocess"
    /\ call.parent = "reading"
    /\ call.stdout = 0
    /\ call.child = "exited"
    /\ call' = [call EXCEPT !.parent = "waiting"]
    /\ UNCHANGED ret
    /\ UNCHANGED <<pc, sim, subprocess_flag, pos, level_dicts, worker, disk, reportFile,
                   nruns, dispatched, levelLog, startReport, rerun, tampered, tables,
                   MODULES_NOT_FOUND, write_mdss_files>>

\* main_helper.py 425: p.wait() returns when the worker has ended
ParentWait ==
    /\ call.fn = "run_as_subprocess"
    /\ call.parent = "waiting"
    /\ call.child = "exited"
    /\ call' = [call EXCEPT !.parent = "communicate"]
    /\ UNCHANGED ret
    /\ UNCHANGED <<pc, sim, subprocess_flag, pos, level_dicts, worker, disk, reportFile,
                   nruns, dispatched, levelLog, startReport, rerun, tampered, tables,
                   MODULES_NOT_FOUND, write_mdss_files>>

\* main_helper.py 427-432: p.communicate() reads what is left in stderr and the
\* function goes on to its return
ParentCommunicate ==
    /\ call.fn = "run_as_subprocess"
    /\ call.parent = "communicate"
    /\ call' = [call EXCEPT !.parent = "returned", !.stderr = 0,
                            !.stderr_read = call.stderr]
    /\ UNCHANGED ret
    /\ UNCHANGED <<pc, sim, subprocess_flag, pos, level_dicts, worker, disk, reportFile,
                   nruns, dispatched, levelLog, startReport, rerun, tampered, tables,
                   MODULES_NOT_FOUND, write_mdss_files>>

PipeNext ==
    \/ ChildWrite
    \/ ChildExit
    \/ ParentReadLine
    \/ ParentEndOfFile
    \/ ParentWait
    \/ ParentCommunicate

\* both processes run on: a step of the parent or of the worker that can be
\* taken is taken
SpecPipe ==
    /\ PipeInit
    /\ [][PipeNext]_vars
    /\ WF_vars(PipeNext)

(***************************************************************************)
(* The two places that read a result line: run_as_subprocess from the      *)
(* worker's stdout (main_helper.py 416-431) and submit_job_on_hpc from the  *)
(* output file of the job (main_helper.py 347-353), on the same lines.      *)
(***************************************************************************)
ExtractInit ==
    /\ SweepIdle
    /\ \E lines \in Stdouts :
          call = [fn |-> "extract", lines |-> lines, from_stdout |-> NoRet,
                  from_file |-> NoRet]
    /\ ret = NoRet

\* main_helper.py 416-431
ExtractFromStdout ==
    /\ call.fn = "extract"
    /\ call.from_stdout = NoRet
    /\ call' = [call EXCEPT !.from_stdout = subprocess_result(call.lines)]
    /\ UNCHANGED ret
    /\ UNCHANGED <<pc, sim, subprocess_flag, pos, level_dicts, worker, disk, reportFile,
                   nruns, dispatched, levelLog, startReport, rerun, tampered, tables,
                   MODULES_NOT_FOUND, write_mdss_files>>

\* main_helper.py 347-353
ExtractFromFile ==
    /\ call.fn = "extract"
    /\ call.from_file = NoRet
    /\ call' = [call EXCEPT !.from_file = read_out_file(call.lines)]
    /\ UNCHANGED ret
    /\ UNCHANGED <<pc, sim, subprocess_flag, pos, level_dicts, worker, disk, reportFile,
                   nruns, dispatched, levelLog, startReport, rerun, tampered, tables,
                   MODULES_NOT_FOUND, write_mdss_files>>

ExtractNext ==
    \/ ExtractFromStdout
    \/ ExtractFromFile

SpecExtract == ExtractInit /\ [][ExtractNext]_vars

(***************************************************************************)
(* Properties.                                                             *)
(***************************************************************************)
SeqSet(q) == {q[i] : i \in 1..Len(q)}
DeclaredValues(aoa_list) == {float(a) : a \in SeqSet(aoa_list)}
JobValues(job) == {ParseFloat(x) : x \in SeqSet(job.aoa_csv_str)}
JobsFor(dir) == {j \in 1..Len(dispatched) : dispatched[j].ref_level_dir = dir}
FailedOf(rld) == [i \in 1..Len(rld.d["failed_aoa"].l) |-> rld.d["failed_aoa"].l[i].a]
NonUnitKeys == {"failed_aoa", "csv_file", "refinement_out_dir"}

\* C1: a declared condition value whose checkpoint record (the file the worker
\* writes, aoa_<float>.yaml) holds fail_flag = 0 when its level is processed is
\* in no job descriptor dispatched for that level, whatever its textual form.
C1_SkipCorrectness ==
    \A k \in 1..Len(levelLog) :
        \A a \in DeclaredValues(levelLog[k].aoa_list) :
            IsSuccess(levelLog[k].snap[a]) =>
                \A j \in JobsFor(levelLog[k].dir) : a \notin JobValues(dispatched[j])

\* C2: a declared condition value whose checkpoint record is absent, unreadable
\* or has fail_flag = 1 when its level is processed is in the list of the single
\* job descriptor dispatched for that level.
C2_RetryOnFailure ==
    \A k \in 1..Len(levelLog) :
        \A a \in DeclaredValues(levelLog[k].aoa_list) :
            ~IsSuccess(levelLog[k].snap[a]) =>
                /\ Cardinality(JobsFor(levelLog[k].dir)) = 1
                /\ \A j \in JobsFor(levelLog[k].dir) : a \in JobValues(dispatched[j])

\* the same for the invocations whose subprocess_flag is True or False
RetryWhenDispatching == subprocess_flag # "0" => C2_RetryOnFailure

\* a second invocation processed a level while one of its records had
\* fail_flag = 1 and another fail_flag = 0, and dispatched a job for the level
RetriedLevel ==
    /\ \E k \in 1..Len(levelLog) : \E a \in DeclaredValues(levelLog[k].aoa_list) :
          /\ levelLog[k].snap[a].st = "rec"
          /\ levelLog[k].snap[a].fail_flag = 1
          /\ \E b \in DeclaredValues(levelLog[k].aoa_list) : IsSuccess(levelLog[k].snap[b])
          /\ JobsFor(levelLog[k].dir) # {}
    /\ nruns = 2

\* C3: once a level has been reconciled with a condition value in its failed
\* list, the invocation is not left by an exception: the later levels are
\* processed and the final report is written.
C3_FailingUnitNeverAborts ==
    pc = "raised" => \A dir \in DOMAIN level_dicts : FailedOf(level_dicts[dir]) = <<>>

\* C4: in subprocess mode a worker that exits without a result marker line does
\* not make run_as_subprocess raise.
C4_NoMarkerHandling ==
    ~(is_True(subprocess_flag) /\ worker.st = "raised" /\ pc = "raised")

\* C5: a launcher that cannot be started while one level is dispatched does not
\* end execute by an exception.
C5_DispatchErrorConfined ==
    ~(pc = "raised" /\ worker.st = "none")

\* a report without its timing entry, and the levels of a report whose failed
\* list is not empty
WithoutTiming(rep) ==
    IF rep = NoFile THEN rep
    ELSE D([k \in DOMAIN rep.d \ {"overall_sim_info"} |-> rep.d[k]])
FailedLevelsOf(h, c, sc) ==
    {<<h.d["name"].s, c.d["name"].s, sc.d["name"].s, m>> :
        m \in {x \in DOMAIN sc.d["sim_info"].d :
                 /\ isdict(sc.d["sim_info"].d[x])
                 /\ sc.d["sim_info"].d[x].d["failed_aoa"].l # <<>>}}
FailedLevels(rep) ==
    IF rep = NoFile THEN {}
    ELSE UNION { UNION { UNION { FailedLevelsOf(h, c, sc)
            : sc \in SeqSet(c.d["scenarios"].l) }
            : c \in SeqSet(h.d["cases"].l) }
            : h \in SeqSet(rep.d["hierarchies"].l) }

\* C6: an invocation that repeats the previous one (same sweep specification,
\* output directory untouched in between) dispatches nothing and leaves the
\* persisted report as it found it.  Stated for a previous invocation that left
\* no failed condition value, and with the start time in the report set aside.
C6_Idempotence ==
    (pc = "done" /\ rerun /\ FailedLevels(startReport) = {}) =>
        (dispatched = <<>> /\ WithoutTiming(reportFile) = WithoutTiming(startReport))

\* the level reconciled by the step just taken, in the states that follow a
\* Reconcile step directly
Occurrences(q, x) == Cardinality({i \in 1..Len(q) : q[i] = x})

\* the entry of level lv in the level results ld is exact for the checkpoint
\* files d
ExactEntry(lv, ld, d) ==
    /\ lv.dir \in DOMAIN ld
    /\ LET rld == ld[lv.dir]
           failed == FailedOf(rld)
           declared == DeclaredValues(lv.aoa_list)
       IN  /\ \A a \in declared :
                  LET c == ReadFile(d, lv.dir, aoa_key(a))
                  IN  IF IsSuccess(c)
                      THEN /\ aoa_key(a) \in DOMAIN rld.d
                           /\ rld.d[aoa_key(a)] =
                                D(("cl" :> N(c.cl)) @@ ("cd" :> N(c.cd))
                                  @@ ("wall_time" :> S(c.wall_time))
                                  @@ ("fail_flag" :> N(0))
                                  @@ ("out_dir" :> P(<<lv.dir, aoa_key(a)>>)))
                           /\ Occurrences(failed, a) = 0
                      ELSE /\ aoa_key(a) \notin DOMAIN rld.d
                           /\ Occurrences(failed, a) = 1
           /\ \A i \in 1..Len(failed) : failed[i] \in declared
           /\ \A k \in DOMAIN rld.d \ NonUnitKeys : \E a \in declared : k = aoa_key(a)

\* the step that follows the dispatch step of a level, in an invocation that
\* keeps a report (write_mdss_files is not false)
AfterDispatchStep ==
    /\ pc = "reconcile"
    /\ pc' # "reconcile"
    /\ write_mdss_files # "False"

\* C7: the step after a level's dispatch step leaves an entry for the level in
\* which every declared condition value either has a readable checkpoint
\* record with fail_flag = 0 and a success record (cl, cd, wall_time,
\* fail_flag 0, out_dir) and is not in the failed list, or has no such record,
\* has no success record in the entry and is exactly once in the failed list;
\* the entry and the failed list hold no value outside the declared list.
C7_ReconciliationExact ==
    [][AfterDispatchStep => ExactEntry(Level, level_dicts', disk')]_vars

\* the same for the invocations whose caller has set write_mdss_files to True
C7_ExactWhenWritten ==
    [][(AfterDispatchStep /\ truth(write_mdss_files))
          => ExactEntry(Level, level_dicts', disk')]_vars

\* the condition values the skip check of a logged level left pending
PendingOf(e) == {float(a) : a \in {b \in SeqSet(e.aoa_list) : ~IsSuccess(e.snap[b])}}

\* C8: within one invocation no two job descriptors are dispatched for the same
\* level; a processed level with a non-empty pending set has exactly one job
\* descriptor, whose condition values are the pending set, and a processed
\* level with an empty pending set has none.
C8_DispatchAtMostOnce ==
    /\ \A i, j \in 1..Len(dispatched) :
          dispatched[i].ref_level_dir = dispatched[j].ref_level_dir => i = j
    /\ \A k, l \in 1..Len(levelLog) : levelLog[k].dir = levelLog[l].dir => k = l
    /\ \A k \in 1..Len(levelLog) :
          IF PendingOf(levelLog[k]) # {}
          THEN /\ Cardinality(JobsFor(levelLog[k].dir)) = 1
               /\ \A j \in JobsFor(levelLog[k].dir) :
                     JobValues(dispatched[j]) = PendingOf(levelLog[k])
          ELSE JobsFor(levelLog[k].dir) = {}

\* the same for the invocations whose subprocess_flag is True or False
OnceWhenDispatching == subprocess_flag # "0" => C8_DispatchAtMostOnce

\* an invocation reached its end after a level was dispatched with two pending
\* values, one of which failed, and another level was not dispatched at all
DispatchedAndSkipped ==
    /\ pc = "finish"
    /\ \E j \in 1..Len(dispatched) : Len(dispatched[j].aoa_csv_str) = 2
    /\ \E dir \in DOMAIN level_dicts : FailedOf(level_dicts[dir]) # <<>>
    /\ \E k \in 1..Len(levelLog) : JobsFor(levelLog[k].dir) = {}

\* the (hierarchy, case, scenario, mesh file, condition key) units for which a
\* report holds a success record
SimInfoUnits(h, c, sc) ==
    IF "sim_info" \notin DOMAIN sc.d THEN {}
    ELSE UNION {
        LET rld == sc.d["sim_info"].d[m]
        IN  IF ~isdict(rld) THEN {}
            ELSE {<<h.d["name"].s, c.d["name"].s, sc.d["name"].s, m, k>> :
                    k \in {x \in DOMAIN rld.d :
                             /\ isdict(rld.d[x])
                             /\ "fail_flag" \in DOMAIN rld.d[x].d
                             /\ rld.d[x].d["fail_flag"] = N(0)}}
        : m \in DOMAIN sc.d["sim_info"].d }
SuccessUnits(rep) ==
    IF rep = NoFile THEN {}
    ELSE UNION { UNION { UNION { SimInfoUnits(h, c, sc)
            : sc \in SeqSet(c.d["scenarios"].l) }
            : c \in SeqSet(h.d["cases"].l) }
            : h \in SeqSet(rep.d["hierarchies"].l) }

\* C9: every success record of the persisted report is still in the persisted
\* report after any step, whatever sweep specification the invocations run.
C9_NeverLosesSuccess ==
    [][SuccessUnits(reportFile) \subseteq SuccessUnits(reportFile')]_vars

\* a second invocation persisted a report that still holds a success record of
\* a level its sweep specification no longer declares
C9_Witness ==
    /\ pc = "done"
    /\ nruns = 2
    /\ startReport # NoFile
    /\ reportFile # startReport
    /\ \E u \in SuccessUnits(reportFile) :
          \A i \in 1..Len(Levels) : Levels[i].dir # <<u[1], u[2], u[3], u[4]>>

\* the lists of a deep_update call and of its result, and the names in a list
BaseList == call.base_dict.d["cases"].l
UpdateList == call.update_dict.d["cases"].l
ResultList == ret.d["cases"].l
NameOf(rec) == rec.d["name"].s
NamesIn(list) == {NameOf(list[i]) : i \in 1..Len(list)}
IndicesOf(list, name) == {i \in 1..Len(list) : NameOf(list[i]) = name}
UniqueNames(list) == \A n \in NamesIn(list) : Cardinality(IndicesOf(list, n)) = 1

\* what merging an update record into a base record gives, written out for
\* records of scalar fields and mappings of scalars
FieldMerge(bv, uv) ==
    IF isdict(bv) /\ isdict(uv)
    THEN D([k \in DOMAIN bv.d \cup DOMAIN uv.d |->
              IF k \in DOMAIN uv.d THEN uv.d[k] ELSE bv.d[k]])
    ELSE uv
RecordMerge(br, ur) ==
    D([k \in DOMAIN br.d \cup DOMAIN ur.d |->
          IF k \notin DOMAIN ur.d THEN br.d[k]
          ELSE IF k \notin DOMAIN br.d THEN ur.d[k]
          ELSE FieldMerge(br.d[k], ur.d[k])])

\* the statement of C10 about one returned call
NamedListMerged ==
    \* every base name is kept, in the original order
    /\ Len(ResultList) >= Len(BaseList)
    /\ \A i \in 1..Len(BaseList) : NameOf(ResultList[i]) = NameOf(BaseList[i])
    \* a name in both lists: the update record is merged into the base record
    \* (the last one carrying the name); the other base records are unchanged
    /\ \A i \in 1..Len(BaseList) :
          LET J == IndicesOf(UpdateList, NameOf(BaseList[i]))
          IN  IF J = {} \/ \E i2 \in IndicesOf(BaseList, NameOf(BaseList[i])) : i2 > i
              THEN ResultList[i] = BaseList[i]
              ELSE Cardinality(J) = 1 =>
                       \A j \in J : ResultList[i] = RecordMerge(BaseList[i], UpdateList[j])
    \* a name only in the update list: appended once, after the base records
    /\ \A n \in NamesIn(UpdateList) \ NamesIn(BaseList) :
          /\ Cardinality(IndicesOf(ResultList, n)) = 1
          /\ \A i \in IndicesOf(ResultList, n) : i > Len(BaseList)
          /\ Cardinality(IndicesOf(UpdateList, n)) = 1 =>
                \A i \in IndicesOf(ResultList, n), j \in IndicesOf(UpdateList, n) :
                    ResultList[i] = UpdateList[j]
    /\ \A i \in 1..Len(ResultList) :
          i > Len(BaseList) => NameOf(ResultList[i]) \notin NamesIn(BaseList)
    \* the keys beside the list are untouched
    /\ ret.d["name"] = call.base_dict.d["name"]

\* C10 as stated: for any two lists of named records, deep_update keeps every
\* base name in order, merges each name in both lists into the base record and
\* appends each name only in the update list once at the end.
C10_NamedListMergeAnyLists ==
    ret # NoRet => NamedListMerged

\* C10: for two lists of named records where no name occurs twice in the update
\* list, deep_update keeps every base name in order, merges each name in both
\* lists into the (last) base record carrying it and appends each name only in
\* the update list once at the end.
C10_NamedListMerge ==
    (ret # NoRet /\ UniqueNames(UpdateList)) => NamedListMerged

\* a call returned whose base list had a name of its own and a name shared with
\* the update list, merged field by field, and whose update list had a new name
C10_Witness ==
    /\ ret # NoRet
    /\ UniqueNames(UpdateList)
    /\ UniqueNames(BaseList)
    /\ NamesIn(BaseList) = {"a", "b"}
    /\ NamesIn(UpdateList) = {"b", "c"}
    /\ \E i \in 1..Len(ResultList) :
          /\ NameOf(ResultList[i]) = "b"
          /\ ResultList[i].d["info"] = D(("k1" :> N(3)) @@ ("k2" :> N(2)))
          /\ ResultList[i].d["x"] = N(2)

\* r is what the statement of C11 asks of the merge of mappings b and u
RECURSIVE MappingMerged(_, _, _)
MappingMerged(r, b, u) ==
    /\ isdict(r)
    /\ DOMAIN r.d = DOMAIN b.d \cup DOMAIN u.d
    /\ \A k \in DOMAIN r.d :
          IF k \notin DOMAIN u.d THEN r.d[k] = b.d[k]
          ELSE IF k \notin DOMAIN b.d THEN r.d[k] = u.d[k]
          ELSE IF isdict(b.d[k]) /\ isdict(u.d[k])
               THEN MappingMerged(r.d[k], b.d[k], u.d[k])
               ELSE r.d[k] = u.d[k]

\* C11: deep_update on two mappings gives the union of the key sets; a key only
\* in the base keeps its value, a key only in the update takes the update's
\* value, a key in both with two mappings is merged the same way, and any other
\* key in both takes the update's value.
C11_MappingMerge ==
    ret # NoRet => MappingMerged(ret, call.base_dict, call.update_dict)

\* a call returned in which a key held a mapping on both sides and the merged
\* mapping is neither of the two, and another key was in the base only
C11_Witness ==
    /\ ret # NoRet
    /\ \E k \in DOMAIN call.base_dict.d \cap DOMAIN call.update_dict.d :
          /\ isdict(call.base_dict.d[k])
          /\ isdict(call.update_dict.d[k])
          /\ ret.d[k] \notin {call.base_dict.d[k], call.update_dict.d[k]}
          /\ "b" \in DOMAIN ret.d[k].d
          /\ ret.d[k].d["b"] = D(("z" :> N(2)) @@ ("y" :> N(1)))
    /\ DOMAIN call.base_dict.d \ DOMAIN call.update_dict.d # {}

\* the names in the hierarchies list of a report, and in the cases list of the
\* hierarchies of a report that carry a name
HierarchyNames(rep) == NamesIn(rep.d["hierarchies"].l)
CaseNames(rep, h) ==
    UNION {NamesIn(rep.d["hierarchies"].l[i].d["cases"].l) :
             i \in IndicesOf(rep.d["hierarchies"].l, h)}
SameNames(x, y) ==
    /\ HierarchyNames(x) = HierarchyNames(y)
    /\ \A h \in HierarchyNames(x) : CaseNames(x, h) = CaseNames(y, h)

\* C12: merging fragments A, B, C one after the other into a report gives, in
\* the hierarchies list and in every cases list, the same names as merging A
\* with B and then C, and as merging A with the merge of B and C: the union of
\* the names in A, B and C.
C12_MergeAssociativity ==
    ret # NoRet =>
        /\ SameNames(ret.folded, ret.left)
        /\ SameNames(ret.left, ret.right)
        /\ HierarchyNames(ret.folded) =
              HierarchyNames(call.A) \cup HierarchyNames(call.B) \cup HierarchyNames(call.C)
        /\ \A h \in HierarchyNames(ret.folded) :
              CaseNames(ret.folded, h) =
                 CaseNames(call.A, h) \cup CaseNames(call.B, h) \cup CaseNames(call.C, h)

\* three fragments were merged whose hierarchy names overlap in part and whose
\* cases of h1 are c1 in one fragment and c2 in another
C12_Witness ==
    /\ ret # NoRet
    /\ HierarchyNames(call.A) = {"h1"}
    /\ HierarchyNames(call.B) = {"h1", "h2"}
    /\ HierarchyNames(call.C) = {"h2"}
    /\ CaseNames(call.A, "h1") = {"c1"}
    /\ CaseNames(call.B, "h1") = {"c2"}
    /\ CaseNames(ret.folded, "h1") = {"c1", "c2"}

\* the lines of a stdout that begin with the marker
MarkerLinesOf(out) == {i \in 1..Len(out) : out[i] # <<>> /\ Head(out[i]) = "M"}

\* C13: when exactly one line of the worker's stdout begins with ::RESULT:: and
\* it is ::RESULT::<json of a result mapping>::RESULT::, run_as_subprocess
\* returns that mapping, whatever the other lines are.
C13_MarkerParsing ==
    ret # NoRet =>
        \A m \in ResultMappings :
            (/\ Cardinality(MarkerLinesOf(call.stdout)) = 1
             /\ \A i \in MarkerLinesOf(call.stdout) : call.stdout[i] = MarkerLine(m))
            => ret = [st |-> "returned", value |-> m]

\* a stdout was read whose one marker line, for two condition values, stands
\* between a line with the marker further in and a line with other text
C13_Witness ==
    /\ ret # NoRet
    /\ Len(call.stdout) = 3
    /\ MarkerLinesOf(call.stdout) = {2}
    /\ call.stdout[1] = <<"x", "M", "{", "}", "M">>
    /\ call.stdout[3] = <<"x">>
    /\ ret.st = "returned"
    /\ DOMAIN ret.value.d = {"aoa_0.0", "aoa_5.0"}
    /\ ret.value.d["aoa_5.0"].d["cl"] = N(2)


\* the rows of the table written by the call
WrittenRows == ret.rows

\* the rows read from the table found on disk by the call
ExistingRows ==
    IF call.existing = Absent THEN <<>> ELSE load_csv_data(call.existing)

\* the newly produced rows of the call, in the order they were produced
NewRows ==
    [i \in 1..Len(call.new) |->
        row_of(call.new[i].t, call.new[i].cl, call.new[i].cd)]

\* the last row of rows with the given Alpha
LastWith(rows, alpha) ==
    rows[Max({i \in 1..Len(rows) : rows[i].Alpha = alpha})]

\* C14: the table written for a level has its rows in strictly ascending
\* order of the condition value, hence at most one row for each value; every
\* condition value of a newly produced row is held with the newly produced
\* row (the last one produced for it), also when the table found on disk
\* had a row for it; every other value the found table had keeps the last
\* row the found table had for it.
C14_LevelTable ==
    (call.fn = "level_table" /\ ret # NoRet) =>
        /\ \A i, j \in 1..Len(WrittenRows) :
              i < j => WrittenRows[i].Alpha < WrittenRows[j].Alpha
        /\ \A r \in SeqSet(NewRows) :
              LastWith(NewRows, r.Alpha) \in SeqSet(WrittenRows)
        /\ \A r \in SeqSet(ExistingRows) :
              (\A n \in SeqSet(NewRows) : n.Alpha # r.Alpha)
                  => LastWith(ExistingRows, r.Alpha) \in SeqSet(WrittenRows)
        /\ SeqSet(WrittenRows) \subseteq SeqSet(ExistingRows) \cup SeqSet(NewRows)

\* a table is written over a found table that has two rows for one condition
\* value, for which two rows are newly produced as well, and a larger value
\* stands before a smaller one in the found table
C14_Witness ==
    /\ call.fn = "level_table"
    /\ ret # NoRet
    /\ call.existing \notin {Absent, Corrupt}
    /\ Len(ExistingRows) = 2
    /\ ExistingRows[1].Alpha = 500
    /\ ExistingRows[2].Alpha = 500
    /\ ExistingRows[1].CL # ExistingRows[2].CL
    /\ Len(NewRows) = 2
    /\ NewRows[1].Alpha = 500
    /\ NewRows[2].Alpha = 400
    /\ Len(WrittenRows) = 2


\* the place of a level in the sweep specification: the indices of its
\* hierarchy, case, scenario and mesh file in the lists that declare them
DeclaredIndex(si, dir) ==
    LET h == CHOOSE i \in 1..Len(si.hierarchies) : si.hierarchies[i].name = dir[1]
        H == si.hierarchies[h]
        c == CHOOSE i \in 1..Len(H.cases) : H.cases[i].name = dir[2]
        C == H.cases[c]
        sc == CHOOSE i \in 1..Len(C.scenarios) : C.scenarios[i].name = dir[3]
        m == CHOOSE i \in 1..Len(C.mesh_files) : C.mesh_files[i] = dir[4]
    IN  <<h, c, sc, m>>

\* a comes before b: hierarchy first, then case, then scenario, then mesh file
Before(a, b) ==
    \E k \in 1..4 : a[k] < b[k] /\ \A l \in 1..(k - 1) : a[l] = b[l]

\* the levels declared by a sweep specification
DeclaredDirs(si) ==
    UNION {UNION {{<<H.name, C.name, C.scenarios[sc].name, C.mesh_files[m]>> :
                      sc \in 1..Len(C.scenarios), m \in 1..Len(C.mesh_files)} :
                  C \in SeqSet(H.cases)} :
           H \in SeqSet(si.hierarchies)}

\* the levels this invocation is done with: the step after the dispatch step
\* (reconciliation and table write, if the MDSS files are written) is over
LevelsLeft ==
    {Levels[k].dir : k \in 1..(pos - 1)}
        \cup (IF pc \in {"finish", "done"} THEN {Levels[pos].dir} ELSE {})

\* the batches dispatched in this invocation whose level is not left
Outstanding ==
    {i \in 1..Len(dispatched) : dispatched[i].ref_level_dir \notin LevelsLeft}

\* the levels this invocation has visited, in the order of the visits
Visited == [i \in 1..Len(levelLog) |-> levelLog[i].dir]

\* until the report is written: at most one batch is outstanding, a worker
\* works on nothing but that batch, and the levels visited so far have been
\* visited in the declared order without leaving one out
SequentialState ==
    /\ pc \in {"level", "running", "reconcile", "raised", "finish"} =>
          /\ Cardinality(Outstanding) <= 1
          /\ worker.st # "none" =>
                /\ Outstanding = {Len(dispatched)}
                /\ worker.dir = dispatched[Len(dispatched)].ref_level_dir
    /\ pc # "idle" =>
          /\ \A i, j \in 1..Len(Visited) :
                i < j => Before(DeclaredIndex(sim, Visited[i]), DeclaredIndex(sim, Visited[j]))
          /\ \A d \in DeclaredDirs(sim) :
                \/ d \in SeqSet(Visited)
                \/ /\ pc \in {"level", "running", "reconcile", "raised"}
                   /\ \A i \in 1..Len(Visited) :
                         Before(DeclaredIndex(sim, Visited[i]), DeclaredIndex(sim, d))

\* a step that issues a dispatch is taken with no worker alive and with every
\* level dispatched before left: reconciled and its level table written (if
\* the invocation writes the MDSS files at all)
SequentialStep ==
    Len(dispatched') > Len(dispatched) =>
        /\ Len(dispatched') = Len(dispatched) + 1
        /\ worker = NoWorker
        /\ \A i \in 1..Len(dispatched) :
              /\ dispatched[i].ref_level_dir \in LevelsLeft
              /\ truth(write_mdss_files) =>
                    /\ dispatched[i].ref_level_dir \in DOMAIN level_dicts
                    /\ dispatched[i].ref_level_dir \in DOMAIN tables

\* C15: within an invocation at most one dispatched batch is outstanding; a
\* dispatch is issued only when the worker of the batch dispatched before has
\* ended and that level has been reconciled and its table written; the levels
\* are visited in the declared order: hierarchy, then case, then scenario,
\* then mesh file.
C15_SequentialOrchestration ==
    /\ []SequentialState
    /\ [][SequentialStep]_vars

\* every level of the two hierarchies has been visited and the report written,
\* with a batch dispatched for each of the six levels
C15_Witness ==
    /\ sim = SimC
    /\ pc = "done"
    /\ Len(levelLog) = 6
    /\ Len(dispatched) = 6


\* the invocation was given a sweep specification that fails validation, or
\* was to run in process without the solver modules
ConfigurationError ==
    /\ pc # "idle"
    /\ \/ ~check_input_yaml(sim)
       \/ MODULES_NOT_FOUND /\ is_False(subprocess_flag)

\* C16: an invocation with a configuration error ends with the error raised,
\* without a level visited, a job descriptor dispatched or a worker started,
\* and the step that raises it leaves every checkpoint file, level table and
\* the report file as they were.
C16_ConfigurationErrorFirst ==
    /\ [](ConfigurationError =>
            /\ pc = "raised"
            /\ dispatched = <<>>
            /\ levelLog = <<>>
            /\ worker = NoWorker)
    /\ [][ConfigurationError' => UNCHANGED <<disk, tables, reportFile>>]_vars

\* after an invocation that wrote checkpoint files, a table and the report,
\* a second one is given a specification with a missing mesh file
C16_Witness ==
    /\ nruns = 2
    /\ sim = SimBadMesh
    /\ pc = "raised"
    /\ reportFile # NoFile
    /\ disk # <<>>
    /\ tables # <<>>

\* in-process mode is requested without the solver modules
C16_WitnessModules ==
    /\ sim = SimA
    /\ MODULES_NOT_FOUND
    /\ is_False(subprocess_flag)
    /\ pc = "raised"


\* the worker has stopped with an exception at a checkpoint file it cannot read
RaisedAtCorruptFile ==
    /\ worker.st = "raised"
    /\ worker.todo # <<>>
    /\ ReadFile(disk, worker.dir, aoa_key(Head(worker.todo))) = Corrupt

\* C17: a checkpoint file that cannot be read is treated like an absent one:
\* a level visited while the file of a declared value is unreadable has that
\* value in its dispatched batch, and neither the worker nor execute ends
\* with an exception at such a file.
C17_CorruptTreatedAsAbsent ==
    /\ \A i \in 1..Len(levelLog) :
          \A a \in SeqSet(levelLog[i].aoa_list) :
              levelLog[i].snap[float(a)] = Corrupt =>
                  \E j \in JobsFor(levelLog[i].dir) : float(a) \in JobValues(dispatched[j])
    /\ ~RaisedAtCorruptFile


\* C18: a reader of a checkpoint file that is being written sees the complete
\* previous content of the file or the complete new record, never an empty
\* or partly written file.
C18_AtomicCheckpointWrite ==
    (call.fn = "write" /\ ret # NoRet) =>
        ret \in {read_file(call.previous), read_file(Text(yaml_dump(call.record)))}

\* a reader of a file cut inside the value of wall_time loads a mapping that
\* has fail_flag, cl and cd, with a number for wall_time where the record has
\* the text "1.00 sec"
ReadCutValue ==
    /\ call.fn = "write"
    /\ ret # NoRet
    /\ ret.st = "returned"
    /\ ret.value # None
    /\ ret.value.t = "d"
    /\ {<<"f", "a", "i", "l", "_", "f", "l", "a", "g">>, <<"c", "l">>, <<"c", "d">>, <<"w", "a", "l", "l", "_", "t", "i", "m", "e">>} \subseteq DOMAIN ret.value.d
    /\ ret.value.d[<<"w", "a", "l", "l", "_", "t", "i", "m", "e">>] = [t |-> "f", f |-> 1000]

\* a reader of a file cut after the colon of a key loads a mapping in which
\* that key has the value None
ReadCutAfterKey ==
    /\ call.fn = "write"
    /\ call.st = "open"
    /\ ret # NoRet
    /\ ret.st = "returned"
    /\ ret.value # None
    /\ ret.value.t = "d"
    /\ <<"a", "e", "r", "o", "_", "o", "p", "t", "i", "o", "n", "s">> \in DOMAIN ret.value.d
    /\ ret.value.d[<<"a", "e", "r", "o", "_", "o", "p", "t", "i", "o", "n", "s">>] # None
    /\ ret.value.d[<<"a", "e", "r", "o", "_", "o", "p", "t", "i", "o", "n", "s">>].t = "d"
    /\ <<"g", "r", "i", "d", "F", "i", "l", "e">> \in DOMAIN ret.value.d[<<"a", "e", "r", "o", "_", "o", "p", "t", "i", "o", "n", "s">>].d
    /\ ret.value.d[<<"a", "e", "r", "o", "_", "o", "p", "t", "i", "o", "n", "s">>].d[<<"g", "r", "i", "d", "F", "i", "l", "e">>] = None

\* a reader of a file cut inside a key gets a YAMLError from yaml.safe_load,
\* also when the lines the reader needs are in the file
ReadCutKey ==
    /\ call.fn = "write"
    /\ call.st = "open"
    /\ ret = [st |-> "raised", value |-> "YAMLError"]
    /\ \E k \in 1..Len(call.file.text) :
          SubSeq(call.file.text, k, Len(call.file.text)) = <<"\n", " ", " ", "g", "r", "i", "d", "F", "i", "l", "e">>


\* the function is in its wait loop
InWaitLoop == call.fn = "submit_job_on_hpc" /\ call.st \in {"polling", "sleeping"}

\* the function is past its wait loop: at the output file, or it has returned
PastWaitLoop ==
    /\ call.fn = "submit_job_on_hpc"
    /\ \/ call.st \in {"reading", "returned"}
       \/ call.st = "raised" /\ call.error = "FileNotFoundError"

\* with wait_for_job: the function is past its wait loop only with a job
\* identifier that is not in the queue listing, and every poll that listed
\* the identifier was followed by one sleep of the fixed interval
WaitingCall ==
    /\ PastWaitLoop => (call.submitted /\ call.job_id \notin call.queue)
    /\ call.st = "polling" => call.slept = PollInterval * call.polls
    /\ call.st = "sleeping" => (call.slept + PollInterval = PollInterval * call.polls
                                \/ call.polls = MaxPolls)

\* without wait_for_job: no poll, and what is returned is the job identifier
\* of the submission with an empty result mapping
NoWaitCall ==
    /\ call.st \in {"start", "returned", "raised"}
    /\ call.polls = 0
    /\ call.st = "returned" =>
          /\ call.submitted
          /\ ret = [job_id |-> call.job_id, simulation_results |-> D(<<>>)]
          /\ call.job_id = last_word(call.sbatch.stdout)

\* C19: with wait_for_job the function neither reads the output file nor
\* returns while the job identifier is in the queue listing; every poll that
\* lists the identifier is followed by one sleep of the fixed interval and
\* another poll; once the job has left the queue the wait loop ends.
\* Without wait_for_job the function returns from the submission, without a
\* poll, with the job identifier and an empty result mapping.
C19_HpcWaitLoop ==
    /\ []((call.fn = "submit_job_on_hpc" /\ call.wait_for_job) => WaitingCall)
    /\ []((call.fn = "submit_job_on_hpc" /\ ~call.wait_for_job) => NoWaitCall)
    /\ (InWaitLoop /\ call.job_id \notin call.queue) ~> ~InWaitLoop

\* the same for the calls with the cluster GL, the one cluster for which the
\* function submits a job
HpcWaitLoopOnGL ==
    /\ []((call.fn = "submit_job_on_hpc" /\ call.cluster = "GL" /\ call.wait_for_job)
            => WaitingCall)
    /\ []((call.fn = "submit_job_on_hpc" /\ call.cluster = "GL" /\ ~call.wait_for_job)
            => NoWaitCall)
    /\ (InWaitLoop /\ call.job_id \notin call.queue) ~> ~InWaitLoop

\* the job was listed by every poll the bound allows, then left the queue,
\* and the function is past its wait loop
WaitedForJob ==
    /\ call.fn = "submit_job_on_hpc"
    /\ call.wait_for_job
    /\ call.sbatch.returncode = 0
    /\ call.polls = MaxPolls
    /\ call.slept = MaxPolls * PollInterval
    /\ call.queue = {}
    /\ PastWaitLoop

\* C20: when sbatch exits with a status other than zero the function ends
\* with an exception: it does not report the job as submitted, does not poll
\* the queue, does not open an output file and does not return.
C20_SubmissionFailure ==
    (call.fn = "submit_job_on_hpc" /\ call.cluster = "GL"
        /\ call.sbatch.returncode # 0 /\ call.st # "start") =>
        /\ call.st = "raised"
        /\ call.error \notin {"FileNotFoundError"}
        /\ ~call.submitted
        /\ call.polls = 0


\* the submitted job has left the queue after writing its output, which holds
\* no line with the marker, and the function that waited for it has ended
JobDoneWithoutMarker ==
    /\ call.fn = "submit_job_on_hpc"
    /\ call.wait_for_job
    /\ call.sbatch.returncode = 0
    /\ call.st \in {"returned", "raised"}
    /\ slurm_out_file(call.job_name, call.job_id) \in DOMAIN call.files
    /\ \A k \in 1..Len(call.files[slurm_out_file(call.job_name, call.job_id)]) :
          ~startswith_marker(call.files[slurm_out_file(call.job_name, call.job_id)][k])

\* C21: when the job has completed without a marker line in its output,
\* submit_job_on_hpc returns an empty result mapping and does not raise, and
\* run_as_subprocess gives the same for a worker output with the same lines.
C21_JobWithoutMarker ==
    JobDoneWithoutMarker =>
        /\ call.st = "returned"
        /\ ret.simulation_results = D(<<>>)
        /\ subprocess_result(call.files[slurm_out_file(call.job_name, call.job_id)])
              = [st |-> "returned", value |-> D(<<>>)]


\* the words of the last line of the acknowledgement that has a word
AckLine ==
    LET ls == parts_from(call.sbatch.stdout, {"\n"}, <<>>)
    IN  split(ls[Max({k \in 1..Len(ls) : split(ls[k]) # <<>>})])

\* the function has taken a job identifier from the acknowledgement
HasJobId ==
    /\ call.fn = "submit_job_on_hpc"
    /\ call.submitted

\* C22 as stated: the job identifier used for the polls is the first word of
\* the last line of the acknowledgement.
C22_JobIdIsFirstWord ==
    HasJobId => call.job_id = AckLine[1]

\* C22: the job identifier used for the polls, and returned, is the last word
\* of the last line of the acknowledgement that is not empty.
C22_JobIdIsLastWord ==
    HasJobId =>
        /\ call.job_id = AckLine[Len(AckLine)]
        /\ call.st = "returned" => ret.job_id = AckLine[Len(AckLine)]

\* the acknowledgement came after another line and before an empty one, and
\* the queue was polled for its job identifier, which was listed
C22_Witness ==
    /\ HasJobId
    /\ Len(parts_from(call.sbatch.stdout, {"\n"}, <<>>)) > 3
    /\ call.job_id = <<"4", "5", "6">>
    /\ call.polls >= 1

(***************************************************************************)
(* C23: the job descriptors an invocation dispatches are a function of the *)
(* sweep specification, of subprocess_flag (with 0 nothing is dispatched)   *)
(* and of the checkpoint files its levels find alone:                      *)
(* in every state the dispatched sequence is the concatenation, over the   *)
(* levels visited so far, of the descriptor computed from the level's      *)
(* declared values and its checkpoint files, whatever the cumulative       *)
(* report and the level tables hold (both are present in some invocations  *)
(* and removed in others that find the same checkpoint files).             *)
(***************************************************************************)
PendingStrings(e) ==
    LET pending(a) == ~IsSuccess(e.snap[a])
        left == SelectSeq(e.aoa_list, pending)
    IN  [i \in 1..Len(left) |-> str(float(left[i]))]

JobFromFiles(e) ==
    IF PendingStrings(e) = <<>> \/ subprocess_flag = "0" THEN <<>>
    ELSE <<[ref_level_dir |-> e.dir, aoa_csv_str |-> PendingStrings(e)]>>

C23_SkipFromCheckpointsOnly ==
    dispatched = Concat([k \in 1..Len(levelLog) |-> JobFromFiles(levelLog[k])])

\* a second invocation that lost the report and the tables of the first one:
\* at its first level it skips the unit the first one solved and dispatches
\* the other
C23_Witness ==
    /\ nruns = 2
    /\ startReport = NoFile
    /\ tables = <<>>
    /\ pc = "running"
    /\ Len(levelLog) = 1
    /\ dispatched # <<>>
    /\ \E k \in 1..Len(levelLog) : \E a \in DOMAIN levelLog[k].snap :
          IsSuccess(levelLog[k].snap[a])

(***************************************************************************)
(* C24: every pass of the loop of Problem.run takes the next value of the  *)
(* batch; if the value has no record with fail_flag 0 one record with      *)
(* fail_flag 0 or 1 is written for it and nothing else changes on disk,    *)
(* the value joins the returned mapping exactly when the record has        *)
(* fail_flag 0, and the run goes on with the rest of the batch; a value    *)
(* with a success record is passed over.                                   *)
(***************************************************************************)
WorkerPassDone ==
    LET aoa == Head(worker.todo)
        key == aoa_key(aoa)
        before == ReadFile(disk, worker.dir, key)
        after == ReadFile(disk', worker.dir, key)
    IN  /\ worker'.st = "running"
        /\ worker'.todo = Tail(worker.todo)
        /\ \A f \in DOMAIN disk : f # <<worker.dir, key>> => 
               f \in DOMAIN disk' /\ disk'[f] = disk[f]
        /\ DOMAIN disk' \subseteq DOMAIN disk \cup {<<worker.dir, key>>}
        /\ IF IsSuccess(before)
           THEN /\ after = before
                /\ worker'.problem_results = worker.problem_results
           ELSE /\ after.st = "rec"
                /\ after.AOA = aoa
                /\ after.fail_flag \in {0, 1}
                /\ IF after.fail_flag = 0
                   THEN /\ key \in DOMAIN worker'.problem_results
                        /\ \A k \in DOMAIN worker.problem_results :
                              k \in DOMAIN worker'.problem_results
                   ELSE worker'.problem_results = worker.problem_results

C24_WorkerBatch == [][ProblemRunStep => WorkerPassDone]_vars

(***************************************************************************)
(* C25: a checkpoint record with fail_flag 0 is left as it is by every     *)
(* step of the orchestrator and of the worker: after the step the file     *)
(* still exists and holds the same record (the reconciliation writes back  *)
(* the record it read, the worker passes over the value).                  *)
(***************************************************************************)
C25_SuccessAbsorbing ==
    [][\A f \in DOMAIN disk :
          IsSuccess(disk[f]) => f \in DOMAIN disk' /\ disk'[f] = disk[f]]_vars

\* the second invocation has reconciled a level whose success record was
\* there when the level was visited: the rewrite left the record as it was
C25_Witness ==
    /\ nruns = 2
    /\ level_dicts # <<>>
    /\ Len(levelLog) >= 1
    /\ \E a \in DOMAIN levelLog[1].snap :
          /\ a = float(a)
          /\ IsSuccess(levelLog[1].snap[a])
          /\ ReadFile(disk, levelLog[1].dir, aoa_key(a)) = levelLog[1].snap[a]

(***************************************************************************)
(* C26: for every declared value of a visited level the skip check, the    *)
(* worker and the reconciliation use one and the same checkpoint file, and *)
(* a value whose file held a success record when the level was visited     *)
(* (the record the reconciliation counts) is in no dispatched job of the   *)
(* level.                                                                  *)
(***************************************************************************)
C26_CheckpointKeyConsistency ==
    \A k \in 1..Len(levelLog) :
        \A a \in SeqSet(levelLog[k].aoa_list) :
            LET dir == levelLog[k].dir IN
            /\ skip_check_file(dir, a) = worker_file(dir, a)
            /\ worker_file(dir, a) = reconcile_file(dir, a)
            /\ IsSuccess(levelLog[k].snap[float(a)]) =>
                  \A j \in JobsFor(dir) :
                      str(float(a)) \notin SeqSet(dispatched[j].aoa_csv_str)

\* the level entries of a report: the entry of every mesh file under the
\* sim_info of every scenario, with its path of names
ReportLevels(rep) ==
    IF rep = NoFile THEN {}
    ELSE UNION { UNION { UNION {
            {[dir |-> <<h.d["name"].s, c.d["name"].s, sc.d["name"].s, m>>,
              rld |-> sc.d["sim_info"].d[m]] :
                m \in {x \in DOMAIN sc.d["sim_info"].d : isdict(sc.d["sim_info"].d[x])}}
            : sc \in SeqSet(c.d["scenarios"].l) }
            : c \in SeqSet(h.d["cases"].l) }
            : h \in SeqSet(rep.d["hierarchies"].l) }

HoldsSuccess(rld, key) ==
    /\ key \in DOMAIN rld.d
    /\ isdict(rld.d[key])
    /\ "fail_flag" \in DOMAIN rld.d[key].d
    /\ rld.d[key].d["fail_flag"] = N(0)

(***************************************************************************)
(* C27: with no checkpoint record damaged from outside, no level entry of  *)
(* the persisted report lists a condition value in failed_aoa and holds a  *)
(* success record for the same value.                                      *)
(***************************************************************************)
C27_ReportConsistency ==
    \A e \in ReportLevels(reportFile) :
        \A i \in 1..Len(FailedOf(e.rld)) :
            ~HoldsSuccess(e.rld, aoa_key(FailedOf(e.rld)[i]))

\* the second invocation persisted a report in which a value that was listed
\* as failed by the first one has a success record and is no longer listed
C27_Witness ==
    /\ pc = "done"
    /\ nruns = 2
    /\ \E e0 \in ReportLevels(startReport), e \in ReportLevels(reportFile) :
          /\ e0.dir = e.dir
          /\ \E i \in 1..Len(FailedOf(e0.rld)) :
                HoldsSuccess(e.rld, aoa_key(FailedOf(e0.rld)[i]))

(***************************************************************************)
(* C28: when the report of an invocation is merged into the previous one   *)
(* and written, the failed_aoa list of every level the invocation has      *)
(* processed is, in the written report, the list the invocation computed.  *)
(***************************************************************************)
C28_FailedListLastWriteWins ==
    [][(pc = "finish" /\ pc' = "done") =>
          \A dir \in DOMAIN level_dicts :
              /\ \E e \in ReportLevels(reportFile') : e.dir = dir
              /\ \A e \in ReportLevels(reportFile') :
                    e.dir = dir =>
                        e.rld.d["failed_aoa"] = level_dicts[dir].d["failed_aoa"]]_vars

\* a merge in which the old list of a level was not empty and the new one is,
\* and one in which the old list was empty and the new one is not
C28_Witness ==
    /\ pc = "done"
    /\ nruns = 2
    /\ \E e0 \in ReportLevels(startReport), e \in ReportLevels(reportFile) :
          /\ e0.dir = e.dir
          /\ FailedOf(e0.rld) # <<>>
          /\ FailedOf(e.rld) = <<>>

\* the parent is in "for line in p.stdout" with nothing to read, and the
\* worker is in a write to stderr that has no room
ParentBlockedOnStdout ==
    /\ call.parent = "reading"
    /\ call.stdout = 0
    /\ call.child = "running"

ChildBlockedOnStderr ==
    /\ call.child = "running"
    /\ call.todo # <<>>
    /\ Head(call.todo) = "err"
    /\ call.stderr = PipeCapacity

(***************************************************************************)
(* C29: run_as_subprocess and its worker never block each other: in no     *)
(* state is the parent blocked in a read of stdout while the worker is     *)
(* blocked in a write to a full stderr pipe.                               *)
(***************************************************************************)
C29_NoPipeDeadlock == ~(ParentBlockedOnStdout /\ ChildBlockedOnStderr)

\* the liveness form: whatever the worker writes, run_as_subprocess eventually
\* returns
RunAsSubprocessReturns == <>(call.parent = "returned")

\* lines with at least one result line, in which every line that starts with
\* the marker is a result line (a mapping between two markers)
ResultLines(lines) ==
    /\ \E i \in 1..Len(lines) : startswith_marker(lines[i])
    /\ \A i \in 1..Len(lines) :
          startswith_marker(lines[i]) => \E m \in ResultMappings : lines[i] = MarkerLine(m)

(***************************************************************************)
(* C30: for lines with one or more result lines, run_as_subprocess reading *)
(* them from the worker's stdout and submit_job_on_hpc reading them from   *)
(* the output file of the job extract the same mapping.                    *)
(***************************************************************************)
C30_ExtractionPathsAgree ==
    (/\ call.fn = "extract"
     /\ call.from_stdout # NoRet
     /\ call.from_file # NoRet
     /\ ResultLines(call.lines))
    => call.from_stdout = call.from_file

====
